---- MODULE Spec2Model ----
(***************************************************************************)
(* Model of the server_native bridge transport:                            *)
(*   - BridgePool (hot slot + idle list) under concurrent acquire/release, *)
(*   - one socket-bridge exchange (call_bridge and the response decoder),  *)
(*   - one direct-callback exchange (call_direct_bridge_request).          *)
(* Sizes are scaled: one model byte stands for one unit of the limits,     *)
(* keeping BRIDGE_BODY_CHUNK_BYTES < MAX_PROXY_BODY_BYTES.  Body bytes are *)
(* numbered by their position in the stream, so that order and content of  *)
(* what is forwarded can be compared with what arrived.                    *)
(***************************************************************************)
EXTENDS Integers, Sequences, FiniteSets, TLC

\* ---- bounds of the model ------------------------------------------------
NumPoolTasks == 2
\* request body: at most MaxChunks items of at most MaxChunkLen bytes
MaxChunks == 2
MaxChunkLen == 3
\* response: at most MaxRespFrames chunk frames inside the streamed body, each
\* of at most MaxRespChunkLen bytes
MaxRespFrames == 2
MaxRespChunkLen == 2
\* direct bridge: frames the host has pushed ahead of the receiver
MaxInbound == 1
\* the registry under concurrent direct requests: tasks serving requests, ids
\* drawn in all, calls of the push entry point
NumDirectTasks == 2
MaxRequests == 3
MaxPushes == 2
\* ticks of time followed in the waits of one direct exchange
MaxTicks == 3

\* ---- program constants (scaled) ------------------------------------------
\* BridgePool::new(bridge_endpoint, 256): the idle list's capacity.
max_idle == 2

\* MAX_PROXY_BODY_BYTES (32 MiB) and BRIDGE_BODY_CHUNK_BYTES (64 KiB), scaled
MAX_PROXY_BODY_BYTES == 3
BRIDGE_BODY_CHUNK_BYTES == 2

\* MAX_BRIDGE_FRAME_BYTES (64 MiB), scaled, and the capacity of a new read
\* buffer, Vec::with_capacity(8 * 1024), as the smallest capacity there is
MAX_BRIDGE_FRAME_BYTES == 8
READ_BUFFER_CAPACITY == 1

\* frame types
BRIDGE_RESPONSE_FRAME_TYPE == 2
BRIDGE_REQUEST_CHUNK_FRAME_TYPE == 4
BRIDGE_REQUEST_END_FRAME_TYPE == 5
BRIDGE_RESPONSE_START_FRAME_TYPE == 6
BRIDGE_RESPONSE_CHUNK_FRAME_TYPE == 7
BRIDGE_RESPONSE_END_FRAME_TYPE == 8
BRIDGE_TUNNEL_CHUNK_FRAME_TYPE == 9
BRIDGE_TUNNEL_CLOSE_FRAME_TYPE == 10
BRIDGE_REQUEST_FRAME_TYPE_TOKENIZED == 11
BRIDGE_RESPONSE_FRAME_TYPE_TOKENIZED == 12
BRIDGE_REQUEST_START_FRAME_TYPE_TOKENIZED == 13
BRIDGE_RESPONSE_START_FRAME_TYPE_TOKENIZED == 14
SWITCHING_PROTOCOLS == 101

\* DIRECT_REQUEST_TIMEOUT (30 s), in ticks
DIRECT_REQUEST_TIMEOUT == 2

\* connections a client opens to the listener, and accept() failures
MaxServeConns == 3
MaxAcceptErrors == 1

\* every task owns at most one connection, the pool at most 1 + max_idle
MaxConns == NumPoolTasks + max_idle + 1

VARIABLES
    \* BridgePool
    hot,            \* Mutex<Option<BridgeConnection>>: the set of connections in the slot
    idle,           \* Mutex<Vec<BridgeConnection>>
    \* tasks that acquire and release concurrently
    poolPc,         \* task -> position inside acquire / release
    poolConn,       \* task -> the connection the task owns (0 = none)
    sinceRelease,   \* a release completed and no acquire step ran since
    cleanAcquire,   \* task -> its running acquire started in such a state,
                    \*         and no other acquire step ran meanwhile
    read_buffer,    \* connection -> length and capacity of BridgeConnection.read_buffer
    grown,          \* connections whose buffer was resized to MAX_BRIDGE_FRAME_BYTES / 2 + 1
    \* the HTTP request of one exchange (proxy_request)
    transport,                      \* "socket" | "direct" (state.direct_bridge)
    request_body_known_empty,       \* body.size_hint().exact() == Some(0)
    websocket_upgrade_requested,
    heard,          \* what the response frames taken so far for the request amount to
                    \* when decode_bridge_response_stream reads them ("off": not kept)
    \* the request body stream
    pulls,          \* items taken from the stream so far
    bodyPulled,     \* body bytes taken so far; they are the bytes 1..bodyPulled
    \* call_bridge / write_bridge_request / decode_bridge_response_stream
    pc,
    connection,             \* the BridgeConnection the exchange owns (0 = none)
    request_body_empty,
    total_body_bytes,
    chunk,                  \* bytes of the current body chunk not yet framed
    retried,                \* inside call_bridge_retry_empty_body
    result,                 \* what the call returned: "none" | "ok" | "err"
    status,                 \* BridgeCallResult.status
    body,                   \* BridgeCallResult.body when materialized
    tunnel_socket,          \* BridgeCallResult.tunnel_socket (0 = None)
    stream_total,           \* total_body_bytes of stream_bridge_response_chunks
    httpBody,               \* items sent on the HTTP body channel, in order
    \* the bridge streams and the peer
    sent,           \* request frames written, in order, each with its connection
    connsUsed,      \* connections the exchange obtained, with their origin
    respSent,       \* response body bytes the peer has framed: 1..respSent
    respFrames,     \* chunk frames the peer has sent into the streamed body
    accepted,       \* type of the frame the response reader accepted last on the
                    \* current connection (0 = none yet)
    faults,         \* failures met inside the call, in order
    results,        \* number of results the call has returned
    \* DirectRequestBridge
    next_request_id,        \* AtomicU64
    request_id,             \* the id the exchange drew (0 = none yet)
    pending,                \* ids that have an entry in the registry
    inbound,                \* response_tx/response_rx: frames pushed, not yet received
    \* time in the direct bridge's waits, in ticks
    elapsed,        \* now
    deadline,       \* when the Sleep of the current time::timeout fires (0 = never armed)
    waitStart,      \* when the current wait for a frame began
    \* concurrent direct requests and the host's pushes
    directPc,       \* task -> position inside call_direct_bridge_request and its tasks
    directId,       \* task -> request_id of its current request (0 = none)
    issued,         \* the values fetch_add returned, in the order of the atomic steps
    removed,        \* ids whose registry entry was removed
    channel,        \* id -> payloads sent on response_tx and not yet received
    receivers,      \* ids whose response_rx is alive
    pushes,         \* calls of the push entry point so far
    lastPush,       \* the last call: whether its id had an entry, and what it returned
    \* the registry mutex, one request's emissions and the pushes for its id
    mutex,          \* the thread that holds the lock of `pending` ("none" = free)
    emitPc,         \* the request's task: position in insert / emit / remove
    emits,          \* payloads the task has emitted so far
    inflight_payloads,  \* the entry's retention list: payload numbers, in order
    allocated,      \* payloads whose buffer has not been freed
    payload_ptr,    \* the payload the pointer taken under the lock refers to (0 = none)
    pushPc,         \* thread -> position inside the push entry point
    pushCalls,      \* calls of the push entry point so far, over both threads
    \* one WebSocket tunnel
    shape,          \* "socket" (run_websocket_tunnel) | "direct" (run_direct_websocket_tunnel)
    tunPc,          \* the tunnel function: "none" | "upgrade" | "run" | "returned"
    tunResult,      \* what it returned: "none" | "ok" | "err"
    upPc,           \* client-to-bridge task: "none" | "run" | "eof" | "err"
    downPc,         \* bridge-to-client task: "none" | "run" | "close" | "eof" |
                    \* "timeout" | "err"
    reads,          \* the non-empty reads from the client, in order
    toBridge,       \* frames written to the bridge / payloads given to the callback
    toClient,       \* bytes written to the client, in order
    taken,          \* frames the bridge-to-client task has taken, in order
    peerBytes,      \* tunnel bytes the peer has framed: 1..peerBytes
    peerFrames,     \* frames the peer has sent
    \* the wire codec, applied to one input
    codecOp,        \* the operation that is applied
    codecPc,        \* its position
    codecIn,        \* the input: a header name, a payload, a chunk (bytes)
    codecArg,       \* the frame type or the decoder the input is meant for
    codecOut,       \* what a decoder or the frame reader returned
    buffers,        \* write_all_vectored: the slices to write
    index,          \* write_all_vectored: the slice being written
    offset,         \* write_all_vectored: bytes of that slice already written
    wire,           \* bytes on the stream: written so far / not yet read
    header,         \* read_bridge_frame_reuse: length bytes read so far
    payload,        \* read_bridge_frame_reuse: the caller's buffer
    read,           \* read_bridge_frame_reuse: payload bytes read so far
    \* the serving loop (run_plain_proxy, run_tls_proxy) and the stop entry point
    servePc,        \* the serving function: "none" | "select" | "drain" | "returned"
    stopPc,         \* server_native_stop_proxy_server: "none" | "join" | "done"
    shutdown_tx,    \* the oneshot: "unsent" | "sent"
    backlog,        \* connections the listener holds, not yet accepted
    acceptErrors,   \* listener.accept() calls that returned Err
    serveTasks,     \* connection task -> "none" | "running" | "finished"
    connections,    \* the JoinSet: tasks spawned and not yet joined
    atSignal        \* the tasks that had been spawned when the loop saw the signal

poolVars == <<hot, idle>>
taskVars == <<poolPc, poolConn, sinceRelease, cleanAcquire, read_buffer, grown>>
reqVars == <<transport, request_body_known_empty, websocket_upgrade_requested, heard>>
callVars == <<pulls, bodyPulled, pc, connection, request_body_empty, total_body_bytes,
              chunk, retried, result, status, body, tunnel_socket,
              stream_total, httpBody, sent, connsUsed, respSent, respFrames,
              accepted,
              faults, results>>
directVars == <<next_request_id, request_id, pending, inbound>>
clockVars == <<elapsed, deadline, waitStart>>
exVars == <<reqVars, callVars, directVars, clockVars>>
regVars == <<directPc, directId, issued, removed, channel, receivers, pushes, lastPush>>
lockVars == <<mutex, emitPc, emits, inflight_payloads, allocated, payload_ptr, pushPc,
              pushCalls>>
tunVars == <<shape, tunPc, tunResult, upPc, downPc, reads, toBridge, toClient, taken,
             peerBytes, peerFrames>>
codecVars == <<codecOp, codecPc, codecIn, codecArg, codecOut, buffers, index, offset, wire,
               header, payload, read>>
serveVars == <<servePc, stopPc, shutdown_tx, backlog, acceptErrors, serveTasks, connections,
               atSignal>>
restVars == <<regVars, lockVars, tunVars, codecVars, serveVars>>
vars == <<poolVars, taskVars, exVars, restVars>>

PoolTasks == 1..NumPoolTasks
NoConn == 0

Last(s) == s[Len(s)]
Front(s) == SubSeq(s, 1, Len(s) - 1)
SeqToSet(s) == {s[i] : i \in 1..Len(s)}
\* the bytes numbered a..b, in order
Range(a, b) == [i \in 1..(b - a + 1) |-> a + i - 1]
Take(s, n) == SubSeq(s, 1, IF n < Len(s) THEN n ELSE Len(s))
Drop(s, n) == SubSeq(s, n + 1, Len(s))
Min(S) == CHOOSE x \in S : \A y \in S : x <= y

\* ---- BridgePool ----------------------------------------------------------

\* the connections that exist: pooled or owned by a task
LiveConns == hot \cup SeqToSet(idle) \cup {poolConn[t] : t \in PoolTasks}

\* connect_new() opens a stream no one holds yet (the identity of a dropped
\* stream may come back, as a file descriptor does)
FreshConn == Min((1..MaxConns) \ LiveConns)

\* connect_new: read_buffer: Vec::with_capacity(8 * 1024)
NewBuffer == [len |-> 0, cap |-> READ_BUFFER_CAPACITY]

\* release: the buffer keeps its bytes unless it is replaced
HygieneKeepsBytes(buf) ==
    IF buf.cap > MAX_BRIDGE_FRAME_BYTES THEN NewBuffer ELSE buf

\* release: if read_buffer.capacity() > MAX_BRIDGE_FRAME_BYTES the buffer is
\* replaced by a new one, else read_buffer.clear()
Hygiene(buf) ==
    IF buf.cap > MAX_BRIDGE_FRAME_BYTES THEN NewBuffer ELSE [buf EXCEPT !.len = 0]

\* the buffers of connections that do not exist, as connect_new makes them
NoBuffers ==
    /\ read_buffer = [c \in 1..MaxConns |-> NewBuffer]
    /\ grown = {}

\* the connection's buffer is freed with it
Freed(c) ==
    /\ read_buffer' = [read_buffer EXCEPT ![c] = NewBuffer]
    /\ grown' = grown \ {c}

\* BridgePool::new
PoolNew ==
    /\ hot = {}
    /\ idle = <<>>

\* A pool that earlier exchanges have used: the hot slot filled or taken, up
\* to max_idle idle connections (connections are numbered 1.. in pool order).
PoolUsed ==
    \E h \in 0..1, n \in 0..max_idle :
        /\ hot = IF h = 1 THEN {1} ELSE {}
        /\ idle = [i \in 1..n |-> h + i]

\* number of tasks below t that own a connection under the choice `own`
OwnersBelow(own, t) == Cardinality({u \in own : u < t})

\* The callers: each either not started or inside an exchange, owning a
\* connection it acquired earlier (numbered after the pooled ones).
TasksInit ==
    /\ \E own \in SUBSET PoolTasks :
          /\ poolPc = [t \in PoolTasks |-> IF t \in own THEN "holding" ELSE "free"]
          /\ poolConn = [t \in PoolTasks |->
                IF t \in own
                THEN Cardinality(hot) + Len(idle) + OwnersBelow(own, t) + 1
                ELSE NoConn]
    /\ sinceRelease = FALSE
    /\ cleanAcquire = [t \in PoolTasks |-> FALSE]
    /\ NoBuffers

\* Any acquire step of task t ends the "nothing but releases" window of the others.
AcquireStepGhost(t, flag) ==
    /\ sinceRelease' = FALSE
    /\ cleanAcquire' = [u \in PoolTasks |-> IF u = t THEN flag ELSE FALSE]

\* acquire, first critical section: hot.lock(); hot.take()
AcquireHot(t) ==
    /\ poolPc[t] = "free"
    /\ IF hot # {}
       THEN \E c \in hot :
              /\ hot' = {}
              /\ poolConn' = [poolConn EXCEPT ![t] = c]
              /\ poolPc' = [poolPc EXCEPT ![t] = "holding"]
              /\ AcquireStepGhost(t, FALSE)
       ELSE /\ poolPc' = [poolPc EXCEPT ![t] = "acq_idle"]
            /\ AcquireStepGhost(t, sinceRelease)
            /\ UNCHANGED <<hot, poolConn>>
    /\ UNCHANGED <<idle, read_buffer, grown>>

\* AcquireIdle taking the oldest idle connection instead of the newest
AcquireIdleFifo(t) ==
    /\ poolPc[t] = "acq_idle"
    /\ IF idle # <<>>
       THEN /\ idle' = Tail(idle)
            /\ poolConn' = [poolConn EXCEPT ![t] = Head(idle)]
            /\ poolPc' = [poolPc EXCEPT ![t] = "holding"]
            /\ AcquireStepGhost(t, FALSE)
       ELSE /\ poolPc' = [poolPc EXCEPT ![t] = "acq_connect"]
            /\ AcquireStepGhost(t, cleanAcquire[t])
            /\ UNCHANGED <<idle, poolConn>>
    /\ UNCHANGED <<hot, read_buffer, grown>>

\* acquire, second critical section: idle.lock(); idle.pop()
AcquireIdle(t) ==
    /\ poolPc[t] = "acq_idle"
    /\ IF idle # <<>>
       THEN /\ idle' = Front(idle)
            /\ poolConn' = [poolConn EXCEPT ![t] = Last(idle)]
            /\ poolPc' = [poolPc EXCEPT ![t] = "holding"]
            /\ AcquireStepGhost(t, FALSE)
       ELSE /\ poolPc' = [poolPc EXCEPT ![t] = "acq_connect"]
            /\ AcquireStepGhost(t, cleanAcquire[t])
            /\ UNCHANGED <<idle, poolConn>>
    /\ UNCHANGED <<hot, read_buffer, grown>>

\* acquire, third step: self.connect_new().await succeeds
AcquireConnect(t) ==
    /\ poolPc[t] = "acq_connect"
    /\ (1..MaxConns) \ LiveConns # {}
    /\ poolConn' = [poolConn EXCEPT ![t] = FreshConn]
    /\ poolPc' = [poolPc EXCEPT ![t] = "holding"]
    /\ AcquireStepGhost(t, FALSE)
    /\ read_buffer' = [read_buffer EXCEPT ![FreshConn] = NewBuffer]
    /\ UNCHANGED <<hot, idle, grown>>

\* acquire, third step: connect_new() fails ("connect failed: ...")
AcquireConnectFails(t) ==
    /\ poolPc[t] = "acq_connect"
    /\ poolPc' = [poolPc EXCEPT ![t] = "free"]
    /\ AcquireStepGhost(t, FALSE)
    /\ UNCHANGED <<hot, idle, poolConn, read_buffer, grown>>

\* ReleaseHot leaving the connection with the task that released it
ReleaseHotKeepsOwner(t) ==
    /\ poolPc[t] = "holding"
    /\ IF hot = {}
       THEN /\ hot' = {poolConn[t]}
            /\ sinceRelease' = TRUE
            /\ UNCHANGED <<poolPc, poolConn>>
       ELSE /\ poolPc' = [poolPc EXCEPT ![t] = "rel_idle"]
            /\ UNCHANGED <<hot, poolConn, sinceRelease>>
    /\ read_buffer' = [read_buffer EXCEPT ![poolConn[t]] = Hygiene(@)]
    /\ UNCHANGED <<idle, cleanAcquire, grown>>

\* release, first critical section: if hot.is_none() { *hot = connection.take() }
ReleaseHot(t) ==
    /\ poolPc[t] = "holding"
    /\ IF hot = {}
       THEN /\ hot' = {poolConn[t]}
            /\ poolConn' = [poolConn EXCEPT ![t] = NoConn]
            /\ poolPc' = [poolPc EXCEPT ![t] = "free"]
            /\ sinceRelease' = TRUE
       ELSE /\ poolPc' = [poolPc EXCEPT ![t] = "rel_idle"]
            /\ UNCHANGED <<hot, poolConn, sinceRelease>>
    /\ read_buffer' = [read_buffer EXCEPT ![poolConn[t]] = Hygiene(@)]
    /\ UNCHANGED <<idle, cleanAcquire, grown>>

\* ReleaseIdle without the idle.len() < max_idle test
ReleaseIdleUnbounded(t) ==
    /\ poolPc[t] = "rel_idle"
    /\ idle' = Append(idle, poolConn[t])
    /\ poolConn' = [poolConn EXCEPT ![t] = NoConn]
    /\ poolPc' = [poolPc EXCEPT ![t] = "free"]
    /\ sinceRelease' = TRUE
    /\ UNCHANGED <<hot, cleanAcquire, read_buffer, grown>>

\* release, second critical section: if idle.len() < max_idle { idle.push(c) }
ReleaseIdle(t) ==
    /\ poolPc[t] = "rel_idle"
    /\ idle' = IF Len(idle) < max_idle THEN Append(idle, poolConn[t]) ELSE idle
    /\ poolConn' = [poolConn EXCEPT ![t] = NoConn]
    /\ poolPc' = [poolPc EXCEPT ![t] = "free"]
    /\ sinceRelease' = TRUE
    /\ IF Len(idle) < max_idle
       THEN UNCHANGED <<read_buffer, grown>>
       ELSE Freed(poolConn[t])
    /\ UNCHANGED <<hot, cleanAcquire>>

\* the owner drops the connection instead of releasing it (error, tunnel end)
DropConnection(t) ==
    /\ poolPc[t] = "holding"
    /\ poolConn' = [poolConn EXCEPT ![t] = NoConn]
    /\ poolPc' = [poolPc EXCEPT ![t] = "free"]
    /\ Freed(poolConn[t])
    /\ UNCHANGED <<poolVars, sinceRelease, cleanAcquire>>

\* decode_bridge_response_stream returns tunnel_socket: Some(connection) and
\* proxy_request spawns run_websocket_tunnel with its stream
DetachTunnel(t) ==
    /\ poolPc[t] = "holding"
    /\ poolPc' = [poolPc EXCEPT ![t] = "tunnel"]
    /\ UNCHANGED <<poolVars, poolConn, sinceRelease, cleanAcquire, read_buffer, grown>>

\* run_websocket_tunnel returns: the stream it owned is dropped
TunnelEnd(t) ==
    /\ poolPc[t] = "tunnel"
    /\ poolConn' = [poolConn EXCEPT ![t] = NoConn]
    /\ poolPc' = [poolPc EXCEPT ![t] = "free"]
    /\ Freed(poolConn[t])
    /\ UNCHANGED <<poolVars, sinceRelease, cleanAcquire>>

\* no exchange is modelled next to the pool's callers
\* no response frame has been taken
NothingHeard == [at |-> "first", status |-> 0, bytes |-> <<>>, total |-> 0]

\* the frames taken are not kept account of
Unheard == [at |-> "off", status |-> 0, bytes |-> <<>>, total |-> 0]

NoExchange ==
    /\ transport = "none"
    /\ request_body_known_empty = FALSE
    /\ websocket_upgrade_requested = FALSE
    /\ heard = Unheard
    /\ pulls = 0
    /\ bodyPulled = 0
    /\ pc = "none"
    /\ connection = NoConn
    /\ request_body_empty = TRUE
    /\ total_body_bytes = 0
    /\ chunk = <<>>
    /\ retried = FALSE
    /\ result = "none"
    /\ status = 0
    /\ body = <<>>
    /\ tunnel_socket = NoConn
    /\ stream_total = 0
    /\ httpBody = <<>>
    /\ sent = <<>>
    /\ connsUsed = <<>>
    /\ respSent = 0
    /\ respFrames = 0
    /\ accepted = 0
    /\ faults = <<>>
    /\ results = 0
    /\ next_request_id = 1
    /\ request_id = 0
    /\ pending = {}
    /\ inbound = <<>>
    /\ elapsed = 0
    /\ deadline = 0
    /\ waitStart = 0

DirectTasks == 1..NumDirectTasks
RequestIds == 1..MaxRequests

\* no direct request is in the registry model, no push was made
RegistryIdle ==
    /\ directPc = [t \in DirectTasks |-> "idle"]
    /\ directId = [t \in DirectTasks |-> 0]
    /\ issued = <<>>
    /\ removed = {}
    /\ channel = [i \in RequestIds |-> <<>>]
    /\ receivers = {}
    /\ pushes = 0
    /\ lastPush = [known |-> FALSE, ret |-> 0]

\* the threads that can run the push entry point: the runtime thread of the
\* request's task (from inside the callback) and a thread of the host
Threads == {"task", "host"}

\* no emission is modelled, the mutex of `pending` is free
LockIdle ==
    /\ mutex = "none"
    /\ emitPc = "idle"
    /\ emits = 0
    /\ inflight_payloads = <<>>
    /\ allocated = {}
    /\ payload_ptr = 0
    /\ pushPc = [th \in Threads |-> "idle"]
    /\ pushCalls = 0

\* no tunnel is modelled
TunnelIdle ==
    /\ shape = "none"
    /\ tunPc = "none"
    /\ tunResult = "none"
    /\ upPc = "none"
    /\ downPc = "none"
    /\ reads = <<>>
    /\ toBridge = <<>>
    /\ toClient = <<>>
    /\ taken = <<>>
    /\ peerBytes = 0
    /\ peerFrames = 0

\* what a decoder or the reader has returned before it ran
NoOutput == [status |-> "none", err |-> "", value |-> <<>>, offset |-> 0]

\* the codec is not modelled
CodecIdle ==
    /\ codecOp = "none"
    /\ codecPc = "none"
    /\ codecIn = <<>>
    /\ codecArg = 0
    /\ codecOut = NoOutput
    /\ buffers = <<>>
    /\ index = 0
    /\ offset = 0
    /\ wire = <<>>
    /\ header = <<>>
    /\ payload = <<>>
    /\ read = 0

\* no server is modelled
ServeIdle ==
    /\ servePc = "none"
    /\ stopPc = "none"
    /\ shutdown_tx = "unsent"
    /\ backlog = 0
    /\ acceptErrors = 0
    /\ serveTasks = <<>>
    /\ connections = {}
    /\ atSignal = {}

SideIdle == RegistryIdle /\ LockIdle /\ TunnelIdle /\ CodecIdle /\ ServeIdle

PoolInit == (PoolNew \/ PoolUsed) /\ TasksInit /\ NoExchange /\ SideIdle

\* the exchange and the registry stand still while the pool's callers run
PoolFrame == UNCHANGED <<exVars, restVars>>

PoolNext ==
    \E t \in PoolTasks :
        \/ AcquireHot(t) /\ PoolFrame
        \/ AcquireIdle(t) /\ PoolFrame
        \/ AcquireConnect(t) /\ PoolFrame
        \/ AcquireConnectFails(t) /\ PoolFrame
        \/ ReleaseHot(t) /\ PoolFrame
        \/ ReleaseIdle(t) /\ PoolFrame
        \/ DetachTunnel(t) /\ PoolFrame
        \/ TunnelEnd(t) /\ PoolFrame
        \/ DropConnection(t) /\ PoolFrame

SpecPool == PoolInit /\ [][PoolNext]_vars

\* ---- the read buffers of pooled connections ---------------------------------

\* payload lengths of the frames a connection reads: a small frame, one of
\* MAX_BRIDGE_FRAME_BYTES / 2 + 1 bytes, the largest frame
FrameLens == {1, MAX_BRIDGE_FRAME_BYTES \div 2 + 1, MAX_BRIDGE_FRAME_BYTES}

\* payload.resize(payload_len, 0): the capacity stays when it suffices;
\* otherwise Vec reserves what is needed or, amortized, twice what it had
ResizedCaps(cap, len) ==
    IF len <= cap THEN {cap}
    ELSE {len, IF 2 * cap > len THEN 2 * cap ELSE len}

\* read_bridge_frame_reuse(&mut connection.stream, &mut connection.read_buffer)
\* of the task that owns the connection reads one frame
ReadFrame(t) ==
    /\ poolPc[t] = "holding"
    /\ \E len \in FrameLens : \E cap \in ResizedCaps(read_buffer[poolConn[t]].cap, len) :
          /\ read_buffer[poolConn[t]] # [len |-> len, cap |-> cap]
          /\ read_buffer' = [read_buffer EXCEPT ![poolConn[t]] = [len |-> len, cap |-> cap]]
          /\ grown' = IF len = MAX_BRIDGE_FRAME_BYTES \div 2 + 1
                      THEN grown \cup {poolConn[t]} ELSE grown
    /\ UNCHANGED <<poolVars, poolPc, poolConn, sinceRelease, cleanAcquire>>

\* two callers acquire, read frames and release, so that the critical sections
\* of one release interleave with the other caller's; none drops its connection
HygieneTasks == {t \in PoolTasks : t <= 2}

HygieneInit == PoolInit

HygieneNext ==
    \E t \in HygieneTasks :
        \/ AcquireHot(t) /\ PoolFrame
        \/ AcquireIdle(t) /\ PoolFrame
        \/ AcquireConnect(t) /\ PoolFrame
        \/ AcquireConnectFails(t) /\ PoolFrame
        \/ ReadFrame(t) /\ PoolFrame
        \/ ReleaseHot(t) /\ PoolFrame
        \/ ReleaseIdle(t) /\ PoolFrame

SpecHygiene == HygieneInit /\ [][HygieneNext]_vars

\* task t's acquire returns a connection of the pool in this step
AcquiresPooled(t) ==
    /\ poolPc[t] \in {"free", "acq_idle"}
    /\ poolPc'[t] = "holding"

\* C31: after a connection whose read buffer was grown to
\* MAX_BRIDGE_FRAME_BYTES / 2 + 1 bytes has been released, an acquire that
\* returns it returns a read buffer of at most the small default capacity.
C31_PoolHygiene ==
    [][\A t \in PoolTasks :
          (AcquiresPooled(t) /\ poolConn'[t] \in grown) =>
              read_buffer'[poolConn'[t]].cap <= READ_BUFFER_CAPACITY]_vars

\* every buffer of a pooled connection is empty
PooledBuffersEmpty(h, i, bufs) ==
    \A c \in h \cup SeqToSet(i) : bufs[c].len = 0

\* C35: release puts the connection into the hot slot when the slot is empty,
\* also when the idle list is not; otherwise onto the idle list when that holds
\* fewer than max_idle connections; otherwise it drops it; the connections
\* already in the pool stay where they are, and every pooled connection has
\* an empty read buffer.
C35_ReleasePlacement ==
    [][/\ PooledBuffersEmpty(hot, idle, read_buffer)
       /\ PooledBuffersEmpty(hot', idle', read_buffer')
       /\ \A t \in PoolTasks :
             /\ (poolPc[t] = "holding" /\ poolPc'[t] # "holding") =>
                   /\ idle' = idle
                   /\ IF hot = {}
                      THEN hot' = {poolConn[t]} /\ poolPc'[t] = "free"
                      ELSE hot' = hot /\ poolPc'[t] = "rel_idle"
             /\ (poolPc[t] = "rel_idle" /\ poolPc'[t] # "rel_idle") =>
                   /\ hot' = hot
                   /\ idle' = IF Len(idle) < max_idle
                              THEN Append(idle, poolConn[t])
                              ELSE idle]_vars

\* a release has just completed: the slot and the idle list are full, and a
\* connection whose buffer had grown is in the idle list with an empty buffer
C35_Witness ==
    /\ sinceRelease
    /\ hot # {}
    /\ Len(idle) = max_idle
    /\ \E c \in SeqToSet(idle) :
          read_buffer[c].cap > READ_BUFFER_CAPACITY /\ read_buffer[c].len = 0

\* ---- one exchange: the request side -----------------------------------------

TasksIdle ==
    /\ poolPc = [t \in PoolTasks |-> "free"]
    /\ poolConn = [t \in PoolTasks |-> NoConn]
    /\ sinceRelease = FALSE
    /\ cleanAcquire = [t \in PoolTasks |-> FALSE]
    /\ NoBuffers

\* proxy_request hands one request to the configured bridge
ExchangeStart ==
    /\ transport \in {"socket", "direct"}
    /\ IF transport = "socket" THEN PoolNew \/ PoolUsed ELSE PoolNew
    /\ TasksIdle
    /\ SideIdle
    /\ elapsed = 0
    /\ deadline = 0
    /\ waitStart = 0
    /\ request_body_known_empty \in BOOLEAN
    /\ websocket_upgrade_requested \in BOOLEAN
    /\ pulls = 0
    /\ bodyPulled = 0
    /\ pc = "start"
    /\ connection = NoConn
    /\ request_body_empty = TRUE
    /\ total_body_bytes = 0
    /\ chunk = <<>>
    /\ retried = FALSE
    /\ result = "none"
    /\ status = 0
    /\ body = <<>>
    /\ tunnel_socket = NoConn
    /\ stream_total = 0
    /\ httpBody = <<>>
    /\ sent = <<>>
    /\ connsUsed = <<>>
    /\ respSent = 0
    /\ respFrames = 0
    /\ accepted = 0
    /\ faults = <<>>
    /\ results = 0
    /\ next_request_id = 1
    /\ request_id = 0
    /\ pending = {}
    /\ inbound = <<>>

ExchangeInit == ExchangeStart /\ heard = Unheard

\* the same exchange, with account kept of the response frames taken
AgreeInit == ExchangeStart /\ heard = NothingHeard

respVars == <<status, body, tunnel_socket, stream_total, httpBody,
              respSent, respFrames, accepted>>
streamVars == <<pulls, bodyPulled>>

\* request frames (payload after the u32 length): type and body bytes
SingleFrame == [type |-> BRIDGE_REQUEST_FRAME_TYPE_TOKENIZED, bytes |-> <<>>]
StartFrame == [type |-> BRIDGE_REQUEST_START_FRAME_TYPE_TOKENIZED, bytes |-> <<>>]
ChunkFrame(b) == [type |-> BRIDGE_REQUEST_CHUNK_FRAME_TYPE, bytes |-> b]
EndFrame == [type |-> BRIDGE_REQUEST_END_FRAME_TYPE, bytes |-> <<>>]

\* a connection connect_new() opens during the exchange
ExFreshConn == max_idle + 2 + Len(connsUsed)

\* write_bridge_frame / write_bridge_request_chunk_frame completes
WriteOk(frame) == sent' = Append(sent, [conn |-> connection, frame |-> frame])

\* the call goes on with the same connection
Continue(next) ==
    /\ pc' = next
    /\ UNCHANGED <<connection, result, results, faults>>

\* the call returns Err: the connection is dropped with the call's frame
FailFinal(kind) ==
    /\ faults' = Append(faults, kind)
    /\ connection' = NoConn
    /\ pc' = "done"
    /\ result' = "err"
    /\ results' = results + 1

\* FailBranch with the request_body_empty test left out: every failure retries
FailBranchAlways(kind) ==
    /\ faults' = Append(faults, kind)
    /\ connection' = NoConn
    /\ pc' = "retry_connect"
    /\ UNCHANGED <<result, results>>

\* call_bridge: `if request_body_empty { return call_bridge_retry_empty_body(..) }
\* return Err(error)`
FailBranch(kind) ==
    IF request_body_empty
    THEN /\ faults' = Append(faults, kind)
         /\ connection' = NoConn
         /\ pc' = "retry_connect"
         /\ UNCHANGED <<result, results>>
    ELSE FailFinal(kind)

\* Fail with the retry path taking call_bridge's branch again
FailRetriesAgain(kind) == FailBranch(kind)

\* a failure inside write_bridge_request or decode_bridge_response_stream:
\* call_bridge takes the branch above, call_bridge_retry_empty_body returns it
Fail(kind) == IF retried THEN FailFinal(kind) ELSE FailBranch(kind)

\* call_bridge: bridge_pool.acquire().await? succeeds
CallBridgeAcquire ==
    /\ transport = "socket"
    /\ pc = "start"
    /\ IF hot # {}
       THEN \E c \in hot :
              /\ hot' = {}
              /\ connection' = c
              /\ connsUsed' = Append(connsUsed, [conn |-> c, from |-> "hot"])
              /\ UNCHANGED idle
       ELSE IF idle # <<>>
       THEN /\ idle' = Front(idle)
            /\ connection' = Last(idle)
            /\ connsUsed' = Append(connsUsed, [conn |-> Last(idle), from |-> "idle"])
            /\ UNCHANGED hot
       ELSE /\ connection' = ExFreshConn
            /\ connsUsed' = Append(connsUsed, [conn |-> ExFreshConn, from |-> "new"])
            /\ UNCHANGED <<hot, idle>>
    /\ pc' = IF request_body_known_empty THEN "write_single" ELSE "pull_first"
    /\ request_body_empty' = TRUE
    /\ UNCHANGED <<taskVars, restVars, clockVars, reqVars, directVars, streamVars, respVars, total_body_bytes, chunk,
                   retried, result, results, faults, sent>>

\* call_bridge: bridge_pool.acquire().await? fails in connect_new
CallBridgeAcquireFails ==
    /\ transport = "socket"
    /\ pc = "start"
    /\ hot = {}
    /\ idle = <<>>
    /\ FailFinal("connect")
    /\ UNCHANGED <<poolVars, taskVars, restVars, clockVars, reqVars, directVars, streamVars, respVars, request_body_empty,
                   total_body_bytes, chunk, retried, sent, connsUsed>>

\* write_bridge_empty_request (body known empty, or the stream ended empty)
WriteSingle ==
    /\ pc = "write_single"
    /\ \/ WriteOk(SingleFrame) /\ Continue("read_first")
       \/ Fail("write") /\ UNCHANGED sent
    /\ UNCHANGED <<poolVars, taskVars, restVars, clockVars, reqVars, directVars, streamVars, respVars, request_body_empty,
                   total_body_bytes, chunk, retried, connsUsed>>

\* write_bridge_request, first loop: request_body_stream.next() yields a chunk
PullFirstChunk ==
    /\ pc = "pull_first"
    /\ pulls < MaxChunks
    /\ \E n \in 0..MaxChunkLen :
          /\ pulls' = pulls + 1
          /\ bodyPulled' = bodyPulled + n
          /\ IF n = 0
             THEN UNCHANGED <<pc, request_body_empty, chunk>>
             ELSE /\ request_body_empty' = FALSE
                  /\ chunk' = Range(bodyPulled + 1, bodyPulled + n)
                  /\ pc' = "write_start"
    /\ UNCHANGED <<poolVars, taskVars, restVars, clockVars, reqVars, directVars, respVars, connection, total_body_bytes,
                   retried, result, results, faults, sent, connsUsed>>

\* first loop: the stream ends without a non-empty chunk
PullFirstEnd ==
    /\ pc = "pull_first"
    /\ Continue("write_single")
    /\ UNCHANGED <<poolVars, taskVars, restVars, clockVars, reqVars, directVars, streamVars, respVars, request_body_empty,
                   total_body_bytes, chunk, retried, sent, connsUsed>>

\* first loop: the stream yields Err ("failed to read request body chunk")
PullFirstErr ==
    /\ pc = "pull_first"
    /\ Fail("body")
    /\ UNCHANGED <<poolVars, taskVars, restVars, clockVars, reqVars, directVars, streamVars, respVars, request_body_empty,
                   total_body_bytes, chunk, retried, sent, connsUsed>>

\* write_bridge_frame(socket, &start_payload)
WriteStart ==
    /\ pc = "write_start"
    /\ \/ WriteOk(StartFrame) /\ Continue("chunk_check")
       \/ Fail("write") /\ UNCHANGED sent
    /\ UNCHANGED <<poolVars, taskVars, restVars, clockVars, reqVars, directVars, streamVars, respVars, request_body_empty,
                   total_body_bytes, chunk, retried, connsUsed>>

\* ChunkCheck with the MAX_PROXY_BODY_BYTES test left out
ChunkCheckNoLimit ==
    /\ pc = "chunk_check"
    /\ total_body_bytes' = total_body_bytes + Len(chunk)
    /\ Continue("write_pieces")
    /\ UNCHANGED <<poolVars, taskVars, restVars, clockVars, reqVars, directVars, streamVars, respVars, request_body_empty,
                   chunk, retried, sent, connsUsed>>

\* write_bridge_request_body_chunk: the running total against the limit
ChunkCheck ==
    /\ pc = "chunk_check"
    /\ IF total_body_bytes + Len(chunk) > MAX_PROXY_BODY_BYTES
       THEN Fail("body_too_large") /\ UNCHANGED total_body_bytes
       ELSE /\ total_body_bytes' = total_body_bytes + Len(chunk)
            /\ Continue("write_pieces")
    /\ UNCHANGED <<poolVars, taskVars, restVars, clockVars, reqVars, directVars, streamVars, respVars, request_body_empty,
                   chunk, retried, sent, connsUsed>>

\* WritePiece framing the whole chunk at once, whatever its length
WritePieceUnsplit ==
    /\ pc = "write_pieces"
    /\ \/ /\ WriteOk(ChunkFrame(chunk))
          /\ chunk' = <<>>
          /\ Continue("pull_next")
       \/ Fail("write") /\ UNCHANGED <<sent, chunk>>
    /\ UNCHANGED <<poolVars, taskVars, restVars, clockVars, reqVars, directVars, streamVars, respVars, request_body_empty,
                   total_body_bytes, retried, connsUsed>>

\* write_bridge_request_body_chunk: for frame_chunk in chunk.chunks(BRIDGE_BODY_CHUNK_BYTES)
WritePiece ==
    /\ pc = "write_pieces"
    /\ \/ /\ WriteOk(ChunkFrame(Take(chunk, BRIDGE_BODY_CHUNK_BYTES)))
          /\ chunk' = Drop(chunk, BRIDGE_BODY_CHUNK_BYTES)
          /\ Continue(IF Len(chunk) <= BRIDGE_BODY_CHUNK_BYTES
                      THEN "pull_next" ELSE "write_pieces")
       \/ Fail("write") /\ UNCHANGED <<sent, chunk>>
    /\ UNCHANGED <<poolVars, taskVars, restVars, clockVars, reqVars, directVars, streamVars, respVars, request_body_empty,
                   total_body_bytes, retried, connsUsed>>

\* write_bridge_request, second loop: next() yields a chunk
PullNextChunk ==
    /\ pc = "pull_next"
    /\ pulls < MaxChunks
    /\ \E n \in 0..MaxChunkLen :
          /\ pulls' = pulls + 1
          /\ bodyPulled' = bodyPulled + n
          /\ IF n = 0
             THEN UNCHANGED <<pc, chunk>>
             ELSE /\ chunk' = Range(bodyPulled + 1, bodyPulled + n)
                  /\ pc' = "chunk_check"
    /\ UNCHANGED <<poolVars, taskVars, restVars, clockVars, reqVars, directVars, respVars, connection, request_body_empty,
                   total_body_bytes, retried, result, results, faults, sent, connsUsed>>

\* PullNextEnd going on to the response without the end frame
PullNextEndNoFrame ==
    /\ pc = "pull_next"
    /\ Continue("read_first")
    /\ UNCHANGED <<poolVars, taskVars, restVars, clockVars, reqVars, directVars, streamVars, respVars,
                   request_body_empty, total_body_bytes, chunk, retried, sent, connsUsed>>

\* second loop: the stream ends
PullNextEnd ==
    /\ pc = "pull_next"
    /\ Continue("write_end")
    /\ UNCHANGED <<poolVars, taskVars, restVars, clockVars, reqVars, directVars, streamVars, respVars, request_body_empty,
                   total_body_bytes, chunk, retried, sent, connsUsed>>

\* second loop: the stream yields Err
PullNextErr ==
    /\ pc = "pull_next"
    /\ Fail("body")
    /\ UNCHANGED <<poolVars, taskVars, restVars, clockVars, reqVars, directVars, streamVars, respVars, request_body_empty,
                   total_body_bytes, chunk, retried, sent, connsUsed>>

\* write_bridge_frame(socket, &end_payload)
WriteEnd ==
    /\ pc = "write_end"
    /\ \/ WriteOk(EndFrame) /\ Continue("read_first")
       \/ Fail("write") /\ UNCHANGED sent
    /\ UNCHANGED <<poolVars, taskVars, restVars, clockVars, reqVars, directVars, streamVars, respVars, request_body_empty,
                   total_body_bytes, chunk, retried, connsUsed>>

\* ---- one exchange: the response side over the socket ------------------------

\* what read_bridge_frame_reuse returns as Err
ReadErrors == {"eof_header", "io_error", "frame_too_large", "eof_payload"}

\* a frame payload as the decoders see it: "short" has fewer than two bytes,
\* "badver" an unsupported version byte, "malformed" fails its type's decoder
RespFrame(kind, type, st, bytes) ==
    [kind |-> kind, type |-> type, status |-> st, bytes |-> bytes]
RespBytes(n) == Range(respSent + 1, respSent + n)
SingleFrames ==
    {RespFrame("ok", ty, st, RespBytes(n)) :
        ty \in {BRIDGE_RESPONSE_FRAME_TYPE, BRIDGE_RESPONSE_FRAME_TYPE_TOKENIZED},
        st \in {200, SWITCHING_PROTOCOLS}, n \in 0..MaxRespChunkLen}
StartFrames ==
    {RespFrame("ok", ty, st, <<>>) :
        ty \in {BRIDGE_RESPONSE_START_FRAME_TYPE,
                BRIDGE_RESPONSE_START_FRAME_TYPE_TOKENIZED},
        st \in {200, SWITCHING_PROTOCOLS}}
ChunkFrames ==
    {RespFrame("ok", BRIDGE_RESPONSE_CHUNK_FRAME_TYPE, 0, RespBytes(n)) :
        n \in 0..MaxRespChunkLen}
EndFrames == {RespFrame("ok", BRIDGE_RESPONSE_END_FRAME_TYPE, 0, <<>>)}
OtherFrames == {RespFrame("ok", BRIDGE_TUNNEL_CLOSE_FRAME_TYPE, 0, <<>>)}
BadFrames ==
    {RespFrame("short", 0, 0, <<>>),
     RespFrame("badver", BRIDGE_RESPONSE_START_FRAME_TYPE, 0, <<>>)}
    \cup {RespFrame("malformed", ty, 0, <<>>) :
            ty \in {BRIDGE_RESPONSE_FRAME_TYPE, BRIDGE_RESPONSE_START_FRAME_TYPE,
                    BRIDGE_RESPONSE_CHUNK_FRAME_TYPE, BRIDGE_RESPONSE_END_FRAME_TYPE}}
HeadFrames == SingleFrames \cup StartFrames \cup EndFrames \cup OtherFrames \cup BadFrames
BodyFrames == ChunkFrames \cup EndFrames \cup StartFrames \cup OtherFrames \cup BadFrames

peek_bridge_frame_type_ok(f) == f.kind \notin {"short", "badver"}
is_bridge_response_frame_type(ty) ==
    ty \in {BRIDGE_RESPONSE_FRAME_TYPE, BRIDGE_RESPONSE_FRAME_TYPE_TOKENIZED}
\* is_bridge_response_start_frame_type letting a tunnel-close frame pass as well
is_start_or_tunnel_close_frame_type(ty) ==
    ty \in {BRIDGE_RESPONSE_START_FRAME_TYPE, BRIDGE_RESPONSE_START_FRAME_TYPE_TOKENIZED,
            BRIDGE_TUNNEL_CLOSE_FRAME_TYPE}

is_bridge_response_start_frame_type(ty) ==
    ty \in {BRIDGE_RESPONSE_START_FRAME_TYPE, BRIDGE_RESPONSE_START_FRAME_TYPE_TOKENIZED}

\* the response could not be decoded: the call returns Err
HeardErr == [at |-> "err", status |-> 0, bytes |-> <<>>, total |-> 0]

\* decode_bridge_response_stream on the first frame of a response
HearFirst(f) ==
    IF ~peek_bridge_frame_type_ok(f) THEN HeardErr
    ELSE IF is_bridge_response_frame_type(f.type)
    THEN IF f.kind = "malformed" THEN HeardErr
         ELSE [at |-> "ok", status |-> f.status, bytes |-> f.bytes, total |-> 0]
    ELSE IF ~is_bridge_response_start_frame_type(f.type) THEN HeardErr
    ELSE IF f.kind = "malformed" THEN HeardErr
    ELSE [at |-> "second", status |-> f.status, bytes |-> <<>>, total |-> 0]

\* decode_bridge_response_stream on the frame after a response-start
HearSecond(h, f) ==
    IF ~peek_bridge_frame_type_ok(f) THEN HeardErr
    ELSE IF f.type = BRIDGE_RESPONSE_END_FRAME_TYPE
    THEN IF f.kind = "malformed" THEN HeardErr ELSE [h EXCEPT !.at = "ok"]
    ELSE IF f.type # BRIDGE_RESPONSE_CHUNK_FRAME_TYPE THEN HeardErr
    ELSE IF f.kind = "malformed" THEN HeardErr
    ELSE [h EXCEPT !.at = "stream", !.bytes = f.bytes]

\* stream_bridge_response_chunks on one more frame
HearStream(h, f) ==
    IF ~peek_bridge_frame_type_ok(f) THEN [h EXCEPT !.at = "aborted"]
    ELSE IF f.type = BRIDGE_RESPONSE_CHUNK_FRAME_TYPE
    THEN IF f.kind = "malformed" THEN [h EXCEPT !.at = "aborted"]
         ELSE IF f.bytes = <<>> THEN h
         ELSE IF h.total + Len(f.bytes) > MAX_PROXY_BODY_BYTES
         THEN [h EXCEPT !.at = "aborted", !.total = @ + Len(f.bytes)]
         ELSE [h EXCEPT !.bytes = @ \o f.bytes, !.total = @ + Len(f.bytes)]
    ELSE IF f.type = BRIDGE_RESPONSE_END_FRAME_TYPE
    THEN IF f.kind = "malformed" THEN [h EXCEPT !.at = "aborted"]
         ELSE [h EXCEPT !.at = "ok"]
    ELSE [h EXCEPT !.at = "aborted"]

\* the frame f read after the frames that amounted to h; nothing is read
\* after the response has ended
Hear(h, f) ==
    IF h.at = "first" THEN HearFirst(f)
    ELSE IF h.at = "second" THEN HearSecond(h, f)
    ELSE IF h.at = "stream" THEN HearStream(h, f)
    ELSE h

\* BridgePool::release as one exchange sees it (no other task is inside the pool)
ExRelease(c) ==
    IF hot = {}
    THEN hot' = {c} /\ UNCHANGED idle
    ELSE IF Len(idle) < max_idle
    THEN idle' = Append(idle, c) /\ UNCHANGED hot
    ELSE UNCHANGED <<hot, idle>>

\* Deliver putting the chunk in front of what was sent before
DeliverInFront(bytes) == bytes \o httpBody

\* tx.send(Ok(chunk)): the chunk is the next item of the HTTP response body
Deliver(bytes) == httpBody \o bytes

\* the call returns Ok(BridgeCallResult)
Succeed(next) ==
    /\ pc' = next
    /\ result' = "ok"
    /\ results' = results + 1
    /\ UNCHANGED faults

\* a failure of the first read propagated with `?`
ReadFirstErr ==
    /\ pc = "read_first"
    /\ \E kind \in ReadErrors : FailFinal(kind)
    /\ UNCHANGED <<poolVars, taskVars, restVars, clockVars, reqVars, directVars, streamVars, respVars,
                   request_body_empty, total_body_bytes, chunk, retried, sent, connsUsed>>

\* the first read returns Ok(false): the peer closed before any header byte
ReadFirstEof ==
    /\ pc = "read_first"
    /\ Fail("eof0")
    /\ UNCHANGED <<poolVars, taskVars, restVars, clockVars, reqVars, directVars, streamVars, respVars,
                   request_body_empty, total_body_bytes, chunk, retried, sent, connsUsed>>

\* the first read returns Ok(true); decode_bridge_response_stream up to its own read
ReadFirstFrame ==
    /\ pc = "read_first"
    /\ \E f \in HeadFrames :
          /\ respSent' = respSent + Len(f.bytes)
          /\ heard' = Hear(heard, f)
          /\ IF ~peek_bridge_frame_type_ok(f)
             THEN /\ Fail("decode")
                  /\ UNCHANGED <<poolVars, status, body, tunnel_socket>>
             ELSE IF is_bridge_response_frame_type(f.type)
             THEN IF f.kind = "malformed"
                  THEN /\ Fail("decode")
                       /\ UNCHANGED <<poolVars, status, body, tunnel_socket>>
                  ELSE IF websocket_upgrade_requested /\ f.status = SWITCHING_PROTOCOLS
                  THEN /\ Succeed("tunnel")
                       /\ status' = f.status
                       /\ tunnel_socket' = connection
                       /\ connection' = NoConn
                       /\ UNCHANGED <<poolVars, body>>
                  ELSE /\ ExRelease(connection)
                       /\ Succeed("done")
                       /\ status' = f.status
                       /\ body' = f.bytes
                       /\ connection' = NoConn
                       /\ UNCHANGED tunnel_socket
             ELSE IF ~is_bridge_response_start_frame_type(f.type)
             THEN /\ Fail("decode")
                  /\ UNCHANGED <<poolVars, status, body, tunnel_socket>>
             ELSE IF f.kind = "malformed"
             THEN /\ Fail("decode")
                  /\ UNCHANGED <<poolVars, status, body, tunnel_socket>>
             ELSE /\ status' = f.status
                  /\ Continue("read_second")
                  /\ UNCHANGED <<poolVars, body, tunnel_socket>>
          /\ accepted' = IF faults' # faults THEN accepted ELSE f.type
    /\ UNCHANGED <<taskVars, restVars, clockVars, transport, request_body_known_empty, websocket_upgrade_requested, directVars, streamVars, stream_total, httpBody,
                   respFrames, request_body_empty, total_body_bytes, chunk, retried,
                   sent, connsUsed>>

\* decode_bridge_response_stream: the read after the start frame fails or hits EOF
ReadSecondErr ==
    /\ pc = "read_second"
    /\ \E kind \in ReadErrors \cup {"eof0"} : Fail(kind)
    /\ UNCHANGED <<poolVars, taskVars, restVars, clockVars, reqVars, directVars, streamVars, respVars,
                   request_body_empty, total_body_bytes, chunk, retried, sent, connsUsed>>

\* decode_bridge_response_stream: the frame after the start frame
ReadSecondFrame ==
    /\ pc = "read_second"
    /\ \E f \in BodyFrames :
          /\ respSent' = respSent + Len(f.bytes)
          /\ heard' = Hear(heard, f)
          /\ IF ~peek_bridge_frame_type_ok(f)
             THEN /\ Fail("decode")
                  /\ UNCHANGED <<poolVars, tunnel_socket, httpBody>>
             ELSE IF f.type = BRIDGE_RESPONSE_END_FRAME_TYPE
             THEN IF f.kind = "malformed"
                  THEN /\ Fail("decode")
                       /\ UNCHANGED <<poolVars, tunnel_socket, httpBody>>
                  ELSE IF websocket_upgrade_requested /\ status = SWITCHING_PROTOCOLS
                  THEN /\ Succeed("tunnel")
                       /\ tunnel_socket' = connection
                       /\ connection' = NoConn
                       /\ UNCHANGED <<poolVars, httpBody>>
                  ELSE /\ ExRelease(connection)
                       /\ Succeed("done")
                       /\ connection' = NoConn
                       /\ UNCHANGED <<tunnel_socket, httpBody>>
             ELSE IF f.type # BRIDGE_RESPONSE_CHUNK_FRAME_TYPE
             THEN /\ Fail("decode")
                  /\ UNCHANGED <<poolVars, tunnel_socket, httpBody>>
             ELSE IF f.kind = "malformed"
             THEN /\ Fail("decode")
                  /\ UNCHANGED <<poolVars, tunnel_socket, httpBody>>
             ELSE /\ httpBody' = Deliver(f.bytes)
                  /\ Succeed("streaming")
                  /\ UNCHANGED <<poolVars, tunnel_socket, connection>>
          /\ accepted' = IF faults' # faults THEN accepted ELSE f.type
    /\ UNCHANGED <<taskVars, restVars, clockVars, transport, request_body_known_empty, websocket_upgrade_requested, directVars, streamVars, status, body, stream_total,
                   respFrames, request_body_empty, total_body_bytes, chunk, retried,
                   sent, connsUsed>>

\* StreamStop handing the connection back to the pool
StreamStopReleases(how) ==
    /\ pc' = how
    /\ ExRelease(connection)
    /\ connection' = NoConn
    /\ UNCHANGED <<stream_total, httpBody>>

\* the spawned task stops: the connection is dropped, the body stream gets `how`
StreamStop(how) ==
    /\ pc' = how
    /\ connection' = NoConn
    /\ UNCHANGED <<poolVars, stream_total, httpBody>>

\* SendFails handing the connection back to the pool
SendFailsReleases ==
    /\ pc' = "stream_closed"
    /\ ExRelease(connection)
    /\ connection' = NoConn
    /\ UNCHANGED httpBody

\* stream_bridge_response_chunks: tx.send(..).is_err(), the receiver is gone; the
\* task returns and its connection is dropped with it
SendFails ==
    /\ pc' = "stream_closed"
    /\ connection' = NoConn
    /\ UNCHANGED <<poolVars, httpBody>>

\* StreamReadErr answered with the empty-body retry of call_bridge
StreamReadErrRetries ==
    /\ pc = "streaming"
    /\ transport = "socket"
    /\ pc' = IF request_body_empty /\ ~retried THEN "retry_connect" ELSE "stream_error"
    /\ connection' = NoConn
    /\ UNCHANGED <<poolVars, stream_total, httpBody>>
    /\ UNCHANGED <<taskVars, restVars, clockVars, reqVars, directVars, streamVars, status, body,
                   tunnel_socket, respSent, respFrames, accepted, request_body_empty,
                   total_body_bytes, chunk, retried, result, results, faults, sent,
                   connsUsed>>

\* stream_bridge_response_chunks: the read fails or hits EOF
StreamReadErr ==
    /\ pc = "streaming"
    /\ transport = "socket"
    /\ StreamStop("stream_error")
    /\ UNCHANGED <<taskVars, restVars, clockVars, reqVars, directVars, streamVars, status, body,
                   tunnel_socket, respSent, respFrames, accepted, request_body_empty,
                   total_body_bytes, chunk, retried, result, results, faults, sent,
                   connsUsed>>

\* stream_bridge_response_chunks: total_body_bytes starts at 0 and adds each chunk
StreamTotal(n) == stream_total + n

\* stream_bridge_response_chunks: one frame read and handled
StreamFrame ==
    /\ pc = "streaming"
    /\ transport = "socket"
    /\ \E f \in BodyFrames :
          /\ f \in ChunkFrames => respFrames < MaxRespFrames
          /\ respSent' = respSent + Len(f.bytes)
          /\ heard' = Hear(heard, f)
          /\ respFrames' = IF f \in ChunkFrames THEN respFrames + 1 ELSE respFrames
          /\ IF ~peek_bridge_frame_type_ok(f)
             THEN StreamStop("stream_error")
             ELSE IF f.type = BRIDGE_RESPONSE_CHUNK_FRAME_TYPE
             THEN IF f.kind = "malformed"
                  THEN StreamStop("stream_error")
                  ELSE IF f.bytes = <<>>
                  THEN UNCHANGED <<poolVars, pc, connection, stream_total, httpBody>>
                  ELSE IF StreamTotal(Len(f.bytes)) > MAX_PROXY_BODY_BYTES
                  THEN /\ pc' = "stream_error"
                       /\ connection' = NoConn
                       /\ stream_total' = StreamTotal(Len(f.bytes))
                       /\ UNCHANGED <<poolVars, httpBody>>
                  ELSE \/ /\ httpBody' = Deliver(f.bytes)
                          /\ stream_total' = StreamTotal(Len(f.bytes))
                          /\ UNCHANGED <<poolVars, pc, connection>>
                       \/ /\ SendFails
                          /\ stream_total' = StreamTotal(Len(f.bytes))
             ELSE IF f.type = BRIDGE_RESPONSE_END_FRAME_TYPE
             THEN IF f.kind = "malformed"
                  THEN StreamStop("stream_error")
                  ELSE /\ ExRelease(connection)
                       /\ pc' = "stream_end"
                       /\ connection' = NoConn
                       /\ UNCHANGED <<stream_total, httpBody>>
             ELSE StreamStop("stream_error")
          /\ accepted' = IF pc' = "stream_error" THEN accepted ELSE f.type
    /\ UNCHANGED <<taskVars, restVars, clockVars, transport, request_body_known_empty, websocket_upgrade_requested, directVars, streamVars, status, body, tunnel_socket,
                   request_body_empty, total_body_bytes, chunk, retried, result, results,
                   faults, sent, connsUsed>>

\* call_bridge_retry_empty_body: bridge_pool.connect_new().await?
RetryConnect ==
    /\ pc = "retry_connect"
    /\ retried' = TRUE
    /\ \/ /\ connection' = ExFreshConn
          /\ connsUsed' = Append(connsUsed, [conn |-> ExFreshConn, from |-> "new"])
          /\ pc' = "write_single"
          /\ UNCHANGED <<result, results, faults>>
       \/ /\ FailFinal("connect")
          /\ UNCHANGED connsUsed
    /\ accepted' = 0
    /\ heard' = IF heard = Unheard THEN Unheard ELSE NothingHeard
    /\ UNCHANGED <<poolVars, taskVars, restVars, clockVars, transport, request_body_known_empty, websocket_upgrade_requested, directVars, streamVars, status, body,
                   tunnel_socket, stream_total, httpBody, respSent, respFrames,
                   request_body_empty, total_body_bytes, chunk, sent>>

\* TunnelCloses handing the tunnel's connection back to the pool
TunnelClosesReleases ==
    /\ pc = "tunnel"
    /\ pc' = "tunnel_closed"
    /\ ExRelease(tunnel_socket)
    /\ tunnel_socket' = NoConn
    /\ UNCHANGED <<taskVars, restVars, clockVars, reqVars, directVars, streamVars, status, body, stream_total,
                   httpBody, respSent, respFrames, accepted, connection, request_body_empty,
                   total_body_bytes, chunk, retried, result, results, faults, sent,
                   connsUsed>>

\* proxy_request takes tunnel_socket; run_websocket_tunnel owns the stream until
\* it returns (or the upgrade handle is missing): the stream is dropped
TunnelCloses ==
    /\ pc = "tunnel"
    /\ pc' = "tunnel_closed"
    /\ tunnel_socket' = NoConn
    /\ UNCHANGED <<poolVars, taskVars, restVars, clockVars, reqVars, directVars, streamVars, status, body,
                   stream_total, httpBody, respSent, respFrames, accepted, connection,
                   request_body_empty, total_body_bytes, chunk, retried, result, results,
                   faults, sent, connsUsed>>

SocketNext ==
    \/ CallBridgeAcquire
    \/ CallBridgeAcquireFails
    \/ WriteSingle
    \/ PullFirstChunk
    \/ PullFirstEnd
    \/ PullFirstErr
    \/ WriteStart
    \/ ChunkCheck
    \/ WritePiece
    \/ PullNextChunk
    \/ PullNextEnd
    \/ PullNextErr
    \/ WriteEnd
    \/ ReadFirstErr
    \/ ReadFirstEof
    \/ ReadFirstFrame
    \/ ReadSecondErr
    \/ ReadSecondFrame
    \/ StreamReadErr
    \/ StreamFrame
    \/ RetryConnect
    \/ TunnelCloses

\* ---- one exchange: the direct-callback bridge -------------------------------

\* remove_pending_direct_request
RemovePending == pending' = pending \ {request_id}

\* emit_direct_callback_payload on an id that has its entry: the callback runs
\* with (request_id, payload)
Emit(frames) ==
    sent' = sent \o [i \in 1..Len(frames) |->
                        [conn |-> NoConn, frame |-> frames[i], id |-> request_id]]

\* chunk.chunks(BRIDGE_BODY_CHUNK_BYTES), each piece framed
RECURSIVE ChunkPieces(_)
ChunkPieces(bytes) ==
    IF bytes = <<>> THEN <<>>
    ELSE <<ChunkFrame(Take(bytes, BRIDGE_BODY_CHUNK_BYTES))>>
         \o ChunkPieces(Drop(bytes, BRIDGE_BODY_CHUNK_BYTES))

\* call_direct_bridge_request returns Err after remove_pending_direct_request
DirectFail(kind) ==
    /\ RemovePending
    /\ faults' = Append(faults, kind)
    /\ pc' = "done"
    /\ result' = "err"
    /\ results' = results + 1

\* call_direct_bridge_request: draw the id, insert the registry entry
DirectRegister ==
    /\ transport = "direct"
    /\ pc = "start"
    /\ request_id' = next_request_id
    /\ next_request_id' = next_request_id + 1
    /\ pending' = pending \cup {next_request_id}
    /\ pc' = IF request_body_known_empty THEN "d_emit_empty" ELSE "d_pull_first"
    /\ UNCHANGED <<poolVars, taskVars, restVars, clockVars, reqVars, streamVars, respVars, inbound, connection,
                   request_body_empty, total_body_bytes, chunk, retried, result, results,
                   faults, sent, connsUsed>>

\* ArmTimeout keeping the deadline of the first wait
ArmTimeoutOnce ==
    /\ deadline' = IF deadline = 0 THEN elapsed + DIRECT_REQUEST_TIMEOUT ELSE deadline
    /\ waitStart' = elapsed
    /\ UNCHANGED elapsed

\* time::timeout(DIRECT_REQUEST_TIMEOUT, response_rx.recv()): a new Sleep for
\* this wait
ArmTimeout ==
    /\ deadline' = elapsed + DIRECT_REQUEST_TIMEOUT
    /\ waitStart' = elapsed
    /\ UNCHANGED elapsed

\* DirectEmitEmpty without the is_websocket_upgrade test
DirectEmitEmptySingle ==
    /\ pc = "d_emit_empty"
    /\ Emit(<<SingleFrame>>)
    /\ pc' = "d_wait_first"
    /\ UNCHANGED <<poolVars, taskVars, restVars, reqVars, directVars, streamVars, respVars,
                   connection, request_body_empty, total_body_bytes, chunk, retried,
                   result, results, faults, connsUsed>>
    /\ ArmTimeout

\* emit_direct_streaming_empty_request / emit_direct_empty_request
DirectEmitEmpty ==
    /\ pc = "d_emit_empty"
    /\ IF websocket_upgrade_requested
       THEN Emit(<<StartFrame, EndFrame>>)
       ELSE Emit(<<SingleFrame>>)
    /\ pc' = "d_wait_first"
    /\ UNCHANGED <<poolVars, taskVars, restVars, reqVars, directVars, streamVars, respVars,
                   connection, request_body_empty, total_body_bytes, chunk, retried,
                   result, results, faults, connsUsed>>
    /\ ArmTimeout

\* emit_direct_request_chunk, after the frames in `head`
DirectEmitChunk(head, bytes) ==
    IF total_body_bytes + Len(bytes) > MAX_PROXY_BODY_BYTES
    THEN /\ Emit(head)
         /\ DirectFail("body_too_large")
         /\ UNCHANGED <<total_body_bytes, next_request_id, request_id, inbound>>
    ELSE /\ total_body_bytes' = total_body_bytes + Len(bytes)
         /\ Emit(head \o ChunkPieces(bytes))
         /\ pc' = "d_pull_next"
         /\ UNCHANGED <<directVars, result, results, faults>>

\* emit_direct_bridge_request, first loop: a chunk; a non-empty one is emitted
\* after the start payload
DirectPullFirstChunk ==
    /\ pc = "d_pull_first"
    /\ pulls < MaxChunks
    /\ \E n \in 0..MaxChunkLen :
          /\ pulls' = pulls + 1
          /\ bodyPulled' = bodyPulled + n
          /\ IF n = 0
             THEN UNCHANGED <<pc, total_body_bytes, sent, directVars, result, results,
                              faults>>
             ELSE DirectEmitChunk(<<StartFrame>>, Range(bodyPulled + 1, bodyPulled + n))
    /\ UNCHANGED <<poolVars, taskVars, restVars, clockVars, reqVars, respVars, connection, request_body_empty,
                   chunk, retried, connsUsed>>

\* first loop: the stream ends without a non-empty chunk
DirectPullFirstEnd ==
    /\ pc = "d_pull_first"
    /\ pc' = "d_emit_empty"
    /\ UNCHANGED <<poolVars, taskVars, restVars, clockVars, reqVars, directVars, streamVars, respVars,
                   connection, request_body_empty, total_body_bytes, chunk, retried,
                   result, results, faults, sent, connsUsed>>

\* either loop: the stream yields Err
DirectPullErr ==
    /\ pc \in {"d_pull_first", "d_pull_next"}
    /\ DirectFail("body")
    /\ UNCHANGED <<poolVars, taskVars, restVars, clockVars, reqVars, streamVars, respVars, next_request_id,
                   request_id, inbound, connection, request_body_empty, total_body_bytes,
                   chunk, retried, sent, connsUsed>>

\* second loop: a chunk
DirectPullNextChunk ==
    /\ pc = "d_pull_next"
    /\ pulls < MaxChunks
    /\ \E n \in 0..MaxChunkLen :
          /\ pulls' = pulls + 1
          /\ bodyPulled' = bodyPulled + n
          /\ IF n = 0
             THEN UNCHANGED <<pc, total_body_bytes, sent, directVars, result, results,
                              faults>>
             ELSE DirectEmitChunk(<<>>, Range(bodyPulled + 1, bodyPulled + n))
    /\ UNCHANGED <<poolVars, taskVars, restVars, clockVars, reqVars, respVars, connection, request_body_empty,
                   chunk, retried, connsUsed>>

\* second loop: the stream ends, the end payload is emitted
DirectPullNextEnd ==
    /\ pc = "d_pull_next"
    /\ Emit(<<EndFrame>>)
    /\ pc' = "d_wait_first"
    /\ UNCHANGED <<poolVars, taskVars, restVars, reqVars, directVars, streamVars, respVars,
                   connection, request_body_empty, total_body_bytes, chunk, retried,
                   result, results, faults, connsUsed>>
    /\ ArmTimeout

\* server_native_push_direct_response_frame returning 1: the host, which has
\* seen the id in a callback, pushes a frame for it
HostPush ==
    /\ request_id \in pending
    /\ sent # <<>>
    /\ pc \notin {"done", "stream_end", "stream_error", "stream_closed"}
    /\ Len(inbound) < MaxInbound
    /\ \E f \in HeadFrames \cup ChunkFrames :
          /\ f \in ChunkFrames => respFrames < MaxRespFrames
          /\ inbound' = Append(inbound, f)
          /\ respSent' = respSent + Len(f.bytes)
          /\ respFrames' = IF f \in ChunkFrames THEN respFrames + 1 ELSE respFrames
    /\ UNCHANGED <<poolVars, taskVars, restVars, clockVars, reqVars, streamVars, next_request_id, request_id,
                   pending, pc, connection, request_body_empty, total_body_bytes, chunk,
                   retried, accepted, result, status, body, tunnel_socket,
                   stream_total, httpBody, sent, connsUsed, faults, results>>

\* the wait is pending for one more tick: no frame is queued and the Sleep has
\* not fired
Tick ==
    /\ transport = "direct"
    /\ pc \in {"d_wait_first", "streaming"}
    /\ inbound = <<>>
    /\ elapsed < deadline
    /\ elapsed < MaxTicks
    /\ elapsed' = elapsed + 1
    /\ UNCHANGED <<poolVars, taskVars, restVars, reqVars, callVars, directVars, deadline,
                   waitStart>>

\* the Sleep of the pending wait fires.  Time is not counted here: the rest of
\* the wait passes in one step, and the clock is read from the start of the
\* wait that has just run out
TimerExpires ==
    /\ transport = "direct"
    /\ pc \in {"d_wait_first", "streaming"}
    /\ inbound = <<>>
    /\ elapsed < deadline
    /\ deadline' = elapsed
    /\ waitStart' = elapsed - DIRECT_REQUEST_TIMEOUT
    /\ UNCHANGED <<poolVars, taskVars, restVars, reqVars, callVars, directVars, elapsed>>

\* call_direct_bridge_request: no frame within DIRECT_REQUEST_TIMEOUT
DirectFirstTimeout ==
    /\ pc = "d_wait_first"
    /\ inbound = <<>>
    /\ elapsed >= deadline
    /\ DirectFail("timeout")
    /\ UNCHANGED <<poolVars, taskVars, restVars, clockVars, reqVars, streamVars, respVars, next_request_id,
                   request_id, inbound, connection, request_body_empty, total_body_bytes,
                   chunk, retried, sent, connsUsed>>

\* an Err returned with `?`, without remove_pending_direct_request
DirectFailKeepsEntry(kind) ==
    /\ faults' = Append(faults, kind)
    /\ pc' = "done"
    /\ result' = "err"
    /\ results' = results + 1
    /\ UNCHANGED pending

\* DirectStartTarget without the websocket_upgrade_requested test
DirectStartTargetAnyRequest(st) ==
    IF st = SWITCHING_PROTOCOLS THEN "d_tunnel" ELSE "streaming"

\* call_direct_bridge_request after decode_bridge_response_start: spawn
\* run_direct_websocket_tunnel, or spawn the streaming task
DirectStartTarget(st) ==
    IF websocket_upgrade_requested /\ st = SWITCHING_PROTOCOLS
    THEN "d_tunnel" ELSE "streaming"

\* call_direct_bridge_request: the first frame is received and decoded
DirectFirstFrame ==
    /\ pc = "d_wait_first"
    /\ inbound # <<>>
    /\ inbound' = Tail(inbound)
    /\ heard' = Hear(heard, Head(inbound))
    /\ LET f == Head(inbound) IN
          IF ~peek_bridge_frame_type_ok(f)
          THEN DirectFail("decode") /\ UNCHANGED <<status, body>>
          ELSE IF is_bridge_response_frame_type(f.type)
          THEN IF f.kind = "malformed"
               THEN DirectFailKeepsEntry("decode") /\ UNCHANGED <<status, body>>
               ELSE IF websocket_upgrade_requested /\ f.status = SWITCHING_PROTOCOLS
               THEN DirectFail("upgrade_single_frame") /\ UNCHANGED <<status, body>>
               ELSE /\ RemovePending
                    /\ Succeed("done")
                    /\ status' = f.status
                    /\ body' = f.bytes
          ELSE IF ~is_bridge_response_start_frame_type(f.type)
          THEN DirectFail("decode") /\ UNCHANGED <<status, body>>
          ELSE IF f.kind = "malformed"
          THEN DirectFailKeepsEntry("decode") /\ UNCHANGED <<status, body>>
          ELSE /\ status' = f.status
               /\ Succeed(DirectStartTarget(f.status))
               /\ UNCHANGED <<pending, body>>
    /\ UNCHANGED <<poolVars, taskVars, restVars, transport, request_body_known_empty, websocket_upgrade_requested, streamVars, next_request_id, request_id,
                   connection, request_body_empty, total_body_bytes, chunk, retried,
                   tunnel_socket, stream_total, httpBody, respSent,
                   respFrames, accepted, sent, connsUsed>>
    /\ IF pc' = "streaming" THEN ArmTimeout ELSE UNCHANGED clockVars

\* stream_direct_bridge_response_frames leaves its loop
DirectStreamStop(how) ==
    /\ pc' = how
    /\ RemovePending
    /\ UNCHANGED httpBody

\* stream_direct_bridge_response_frames: no frame within DIRECT_REQUEST_TIMEOUT
DirectStreamTimeout ==
    /\ pc = "streaming"
    /\ transport = "direct"
    /\ inbound = <<>>
    /\ elapsed >= deadline
    /\ DirectStreamStop("stream_error")
    /\ UNCHANGED <<poolVars, taskVars, restVars, clockVars, reqVars, streamVars, next_request_id, request_id,
                   inbound, connection, request_body_empty, total_body_bytes, chunk,
                   retried, result, status, body, tunnel_socket,
                   stream_total, respSent, respFrames, accepted, sent, connsUsed, faults,
                   results>>

\* stream_direct_bridge_response_frames: one frame received and handled
DirectStreamFrame ==
    /\ pc = "streaming"
    /\ transport = "direct"
    /\ inbound # <<>>
    /\ inbound' = Tail(inbound)
    /\ heard' = Hear(heard, Head(inbound))
    /\ LET f == Head(inbound) IN
          IF ~peek_bridge_frame_type_ok(f)
          THEN DirectStreamStop("stream_error")
          ELSE IF f.type = BRIDGE_RESPONSE_CHUNK_FRAME_TYPE
          THEN IF f.kind = "malformed"
               THEN DirectStreamStop("stream_error")
               ELSE IF f.bytes = <<>>
               THEN UNCHANGED <<pc, pending, httpBody>>
               ELSE \/ /\ httpBody' = Deliver(f.bytes)
                       /\ UNCHANGED <<pc, pending>>
                    \/ DirectStreamStop("stream_closed")
          ELSE IF f.type = BRIDGE_RESPONSE_END_FRAME_TYPE
          THEN IF f.kind = "malformed"
               THEN DirectStreamStop("stream_error")
               ELSE DirectStreamStop("stream_end")
          ELSE DirectStreamStop("stream_error")
    /\ UNCHANGED <<poolVars, taskVars, restVars, transport, request_body_known_empty, websocket_upgrade_requested, streamVars, next_request_id, request_id,
                   connection, request_body_empty, total_body_bytes, chunk, retried,
                   result, status, body, tunnel_socket, stream_total,
                   respSent, respFrames, accepted, sent, connsUsed, faults, results>>
    /\ IF pc' = "streaming" THEN ArmTimeout ELSE UNCHANGED clockVars

DirectNext ==
    \/ DirectRegister
    \/ DirectEmitEmpty
    \/ DirectPullFirstChunk
    \/ DirectPullFirstEnd
    \/ DirectPullErr
    \/ DirectPullNextChunk
    \/ DirectPullNextEnd
    \/ HostPush
    \/ TimerExpires
    \/ DirectFirstTimeout
    \/ DirectFirstFrame
    \/ DirectStreamTimeout
    \/ DirectStreamFrame

Next == SocketNext \/ DirectNext

Spec == ExchangeInit /\ [][Next]_vars

SpecAgree == AgreeInit /\ [][Next]_vars

\* ---- the direct exchange of a request without body, with counted time ----

TimedInit ==
    /\ ExchangeInit
    /\ transport = "direct"
    /\ request_body_known_empty

TimedNext ==
    \/ DirectRegister
    \/ DirectEmitEmpty
    \/ HostPush
    \/ Tick
    \/ DirectFirstTimeout
    \/ DirectFirstFrame
    \/ DirectStreamTimeout
    \/ DirectStreamFrame

SpecTimed == TimedInit /\ [][TimedNext]_vars

\* ---- claims about one exchange -------------------------------------------

FaultSet == SeqToSet(faults)
IsRequestHead(frame) ==
    frame.type \in {BRIDGE_REQUEST_FRAME_TYPE_TOKENIZED,
                    BRIDGE_REQUEST_START_FRAME_TYPE_TOKENIZED}
RequestHeads == {i \in 1..Len(sent) : IsRequestHead(sent[i].frame)}
ChunkIndexes == {i \in 1..Len(sent) : sent[i].frame.type = BRIDGE_REQUEST_CHUNK_FRAME_TYPE}
EndWritten == \E i \in 1..Len(sent) : sent[i].frame = EndFrame
\* the frame types written on connection c, in order
RECURSIVE TypesOn(_, _)
TypesOn(log, c) ==
    IF log = <<>> THEN <<>>
    ELSE (IF Head(log).conn = c THEN <<Head(log).frame.type>> ELSE <<>>)
         \o TypesOn(Tail(log), c)
\* the payloads of the chunk frames, concatenated in emission order
RECURSIVE ChunkPayloads(_)
ChunkPayloads(log) ==
    IF log = <<>> THEN <<>>
    ELSE (IF Head(log).frame.type = BRIDGE_REQUEST_CHUNK_FRAME_TYPE
          THEN Head(log).frame.bytes ELSE <<>>)
         \o ChunkPayloads(Tail(log))
IsSingleForm(ts) == ts = <<BRIDGE_REQUEST_FRAME_TYPE_TOKENIZED>>
IsStreamedForm(ts) ==
    /\ Len(ts) >= 3
    /\ ts[1] = BRIDGE_REQUEST_START_FRAME_TYPE_TOKENIZED
    /\ ts[Len(ts)] = BRIDGE_REQUEST_END_FRAME_TYPE
    /\ \A i \in 2..(Len(ts) - 1) : ts[i] = BRIDGE_REQUEST_CHUNK_FRAME_TYPE
IsFormPrefix(ts) ==
    \/ ts = <<>>
    \/ IsSingleForm(ts)
    \/ IsStreamedForm(ts)
    \/ /\ ts[1] = BRIDGE_REQUEST_START_FRAME_TYPE_TOKENIZED
       /\ \A i \in 2..Len(ts) : ts[i] = BRIDGE_REQUEST_CHUNK_FRAME_TYPE
\* the request was written in full: the call is reading the response or has
\* returned it
RequestWritten == pc \in {"read_first", "read_second"} \/ result = "ok"

\* C1: in call_bridge, once a non-empty body chunk has been taken
\* (request_body_empty is false) no failure leads to a retry: the call never
\* enters the retry path, it uses one connection only, no frame is written
\* twice, and any failure makes the call return an error.
C1_NoRetryAfterBodyBytes ==
    (transport = "socket" /\ ~request_body_empty) =>
        /\ ~retried
        /\ pc # "retry_connect"
        /\ Len(connsUsed) = 1
        /\ \A i \in 1..Len(sent) : sent[i].conn = connsUsed[1].conn
        /\ \A i, j \in 1..Len(sent) : i # j => sent[i] # sent[j]
        /\ Cardinality(RequestHeads) <= 1
        /\ faults # <<>> => (Len(faults) = 1 /\ pc = "done" /\ result = "err")

\* a streamed request whose first response read hits end-of-stream
C1_Witness ==
    /\ transport = "socket"
    /\ ~request_body_empty
    /\ EndWritten
    /\ faults = <<"eof0">>
    /\ result = "err"

\* C2 (as stated): with no body bytes emitted, a write error, end-of-stream
\* before a frame, or end-of-stream / I/O error inside a frame header or
\* payload always leads to the retry.
C2_EveryFailureRetries ==
    (/\ transport = "socket"
     /\ request_body_empty
     /\ faults # <<>>
     /\ faults[1] \in {"write", "eof0", "eof_header", "io_error", "eof_payload"})
        => (retried \/ pc = "retry_connect")

\* C3: one call_bridge exchange obtains at most two connections and writes at
\* most two request heads; the second connection comes from connect_new and
\* is not the first; a failure inside the retry ends the call with an error;
\* the call returns exactly one result, exactly when it has stopped.
C3_AtMostOneRetry ==
    transport = "socket" =>
        /\ Len(connsUsed) <= 2
        /\ Cardinality(RequestHeads) <= 2
        /\ Len(connsUsed) = 2 =>
              /\ retried
              /\ connsUsed[2].from = "new"
              /\ connsUsed[2].conn # connsUsed[1].conn
              /\ connsUsed[2].conn \notin 1..(max_idle + 1)
        /\ Len(faults) <= 2
        /\ Len(faults) = 2 => (retried /\ pc = "done" /\ result = "err")
        /\ results <= 1
        /\ (results = 1) <=> (result # "none")
        /\ (results = 1) <=> (pc \in {"done", "tunnel", "tunnel_closed", "streaming",
                                      "stream_end", "stream_error", "stream_closed"})

\* the retry itself failed after a pooled connection had failed
C3_Witness ==
    /\ transport = "socket"
    /\ retried
    /\ Len(connsUsed) = 2
    /\ connsUsed[1].from = "idle"
    /\ Cardinality(RequestHeads) = 2
    /\ Len(faults) = 2
    /\ result = "err"

\* C4: the frames write_bridge_request puts on a connection are, once it has
\* returned Ok, exactly one single-frame request (body known empty or stream
\* ended without a non-empty chunk) or start, one or more chunks, end (a
\* non-empty chunk was seen); while it runs, and after it failed, they are a
\* prefix of that form.
C4_RequestFrameForms ==
    transport = "socket" =>
        /\ \A k \in 1..Len(connsUsed) : IsFormPrefix(TypesOn(sent, connsUsed[k].conn))
        /\ request_body_known_empty =>
              \A i \in 1..Len(sent) : sent[i].frame = SingleFrame
        /\ RequestWritten =>
              LET ts == TypesOn(sent, connsUsed[Len(connsUsed)].conn) IN
                 /\ request_body_empty => IsSingleForm(ts)
                 /\ ~request_body_empty => IsStreamedForm(ts)

\* start, two chunk frames, end have been written and the response is awaited
C4_Witness ==
    /\ transport = "socket"
    /\ pc = "read_first"
    /\ Len(connsUsed) = 1
    /\ TypesOn(sent, connection) =
          <<BRIDGE_REQUEST_START_FRAME_TYPE_TOKENIZED, BRIDGE_REQUEST_CHUNK_FRAME_TYPE,
            BRIDGE_REQUEST_CHUNK_FRAME_TYPE, BRIDGE_REQUEST_END_FRAME_TYPE>>

\* C5: every chunk frame carries 1..BRIDGE_BODY_CHUNK_BYTES bytes (so an empty
\* body chunk yields no frame), the chunk-frame payloads concatenated are
\* always the first bytes of the body in order, and once the end frame is
\* written they are all the bytes the stream delivered.
C5_ChunkFramesCarryBody ==
    /\ \A i \in ChunkIndexes :
          /\ Len(sent[i].frame.bytes) >= 1
          /\ Len(sent[i].frame.bytes) <= BRIDGE_BODY_CHUNK_BYTES
    /\ \E k \in 0..bodyPulled : ChunkPayloads(sent) = Range(1, k)
    /\ EndWritten => ChunkPayloads(sent) = Range(1, bodyPulled)

\* one body chunk longer than a frame may carry, split into two frames
C5_Witness ==
    /\ transport = "socket"
    /\ EndWritten
    /\ pulls = 1
    /\ bodyPulled = BRIDGE_BODY_CHUNK_BYTES + 1
    /\ Cardinality(ChunkIndexes) = 2

\* C6: on both transports the bytes emitted in chunk frames never exceed
\* MAX_PROXY_BODY_BYTES; when a chunk is rejected for the limit, no byte of it
\* has been framed, the request has failed, and no end frame was emitted.
C6_RequestBodyLimit ==
    /\ Len(ChunkPayloads(sent)) <= MAX_PROXY_BODY_BYTES
    /\ "body_too_large" \in FaultSet =>
          /\ bodyPulled > MAX_PROXY_BODY_BYTES
          /\ total_body_bytes <= MAX_PROXY_BODY_BYTES
          /\ ChunkPayloads(sent) = Range(1, total_body_bytes)
          /\ ~EndWritten
          /\ pc = "done"
          /\ result = "err"
          /\ ~retried

\* the direct bridge rejected the second chunk after emitting the first
C6_Witness ==
    /\ transport = "direct"
    /\ "body_too_large" \in FaultSet
    /\ Cardinality(ChunkIndexes) >= 1
    /\ request_id \notin pending

\* C7 (as stated): the response-chunk bytes handed to the HTTP body channel
\* of a streamed socket response, first chunk included, never exceed
\* MAX_PROXY_BODY_BYTES.
C7_SocketResponseBodyLimit ==
    transport = "socket" => Len(httpBody) <= MAX_PROXY_BODY_BYTES

\* C8 (as stated): the response-chunk bytes stream_direct_bridge_response_frames
\* accepts for one request id never exceed MAX_PROXY_BODY_BYTES.
C8_DirectResponseBodyLimit ==
    transport = "direct" => Len(httpBody) <= MAX_PROXY_BODY_BYTES

\* ---- claims about the pool ------------------------------------------------

\* C9: after any interleaving of concurrent acquire and release calls the hot
\* slot holds at most one connection and the idle list at most max_idle.
C9_PoolCapacity ==
    /\ Cardinality(hot) <= 1
    /\ Len(idle) <= max_idle

\* C9 witness: a release reaches its idle section while the hot slot and the
\* idle list are both full.
C9_Witness ==
    /\ Cardinality(hot) = 1
    /\ Len(idle) = max_idle
    /\ \E t \in PoolTasks : poolPc[t] = "rel_idle"

AcquireEnabled(t) ==
    ENABLED (AcquireHot(t) \/ AcquireIdle(t) \/ AcquireConnect(t) \/ AcquireConnectFails(t))

\* C10: acquire returns the connection of the hot slot if there is one,
\* otherwise the most recently pushed idle connection, and connects anew only
\* after it found both empty; none of its steps waits for another task; and an
\* acquire that follows a completed release, with no other acquire step in
\* between, never reaches connect_new.
C10_AcquireOrder ==
    /\ [][\A t \in PoolTasks :
            /\ (poolPc[t] = "free" /\ poolPc'[t] # "free") =>
                  IF hot # {}
                  THEN poolPc'[t] = "holding" /\ poolConn'[t] \in hot /\ hot' = {}
                  ELSE poolPc'[t] = "acq_idle" /\ poolConn'[t] = NoConn
            /\ (poolPc[t] = "acq_idle" /\ poolPc'[t] # "acq_idle") =>
                  IF idle # <<>>
                  THEN /\ poolPc'[t] = "holding"
                       /\ poolConn'[t] = Last(idle)
                       /\ idle' = Front(idle)
                  ELSE poolPc'[t] = "acq_connect" /\ poolConn'[t] = NoConn
            /\ (poolPc[t] = "acq_connect" /\ poolPc'[t] = "holding") =>
                  /\ poolConn'[t] \notin LiveConns
                  /\ UNCHANGED <<hot, idle>>
         ]_vars
    /\ [](\A t \in PoolTasks :
            /\ poolPc[t] \in {"free", "acq_idle", "acq_connect"} => AcquireEnabled(t)
            /\ poolPc[t] = "acq_connect" => ~cleanAcquire[t])

\* C10 witness: an acquire that started right after a release found the hot
\* slot empty and is about to pop the newer of two idle connections.
C10_Witness ==
    \E t \in PoolTasks :
        /\ poolPc[t] = "acq_idle"
        /\ cleanAcquire[t]
        /\ Len(idle) = 2

\* ---- claims about ownership and the response side -------------------------

\* how many places hold connection c
Holders(c) ==
    (IF c \in hot THEN 1 ELSE 0)
    + Cardinality({i \in 1..Len(idle) : idle[i] = c})
    + Cardinality({t \in PoolTasks : poolConn[t] = c})
    + (IF connection = c THEN 1 ELSE 0)
    + (IF tunnel_socket = c THEN 1 ELSE 0)
HeldConns ==
    (LiveConns \cup {connection, tunnel_socket}) \ {NoConn}

\* C11: under every interleaving of acquire, release, tunnel detach and drop a
\* connection is in exactly one place: the hot slot, one position of the idle
\* list, one driving task, or one tunnel; a task owns a connection exactly
\* between its acquire and its release, tunnel end or drop.
C11_ExclusiveOwnership ==
    /\ \A c \in HeldConns : Holders(c) = 1
    /\ \A t \in PoolTasks :
          (poolConn[t] # NoConn) <=> (poolPc[t] \in {"holding", "rel_idle", "tunnel"})

\* a tunnel, a task inside release, the hot slot and the idle list all hold
\* connections at once
C11_Witness ==
    /\ hot # {}
    /\ idle # <<>>
    /\ \E t, u \in PoolTasks : poolPc[t] = "tunnel" /\ poolPc[u] = "rel_idle"

UsedConns == {connsUsed[i].conn : i \in 1..Len(connsUsed)}
Pooled == hot \cup SeqToSet(idle)
\* the exchange completed cleanly: a materialized response was returned, or
\* the streaming task consumed response-end
CleanEnd == (pc = "done" /\ result = "ok") \/ pc = "stream_end"

\* C12: a connection the exchange used is in the pool only if it is the
\* exchange's last connection and the exchange completed cleanly (single-frame
\* response decoded, start then end, or the streaming task consumed the end
\* frame), and then it is in the pool; after any error outcome no connection
\* the exchange used is in the hot slot or the idle list.
C12_ReleaseOnlyWhenClean ==
    transport = "socket" =>
        /\ \A i \in 1..Len(connsUsed) :
              connsUsed[i].conn \in Pooled => (i = Len(connsUsed) /\ CleanEnd)
        /\ CleanEnd =>
              (connsUsed[Len(connsUsed)].conn \in Pooled /\ connection = NoConn)
        /\ (result = "err" \/ pc \in {"stream_error", "stream_closed"}) =>
              (UsedConns \cap Pooled = {} /\ connection = NoConn)

\* a connection taken from the hot slot is dropped when the streamed
\* response exceeds the body limit
C12_Witness ==
    /\ transport = "socket"
    /\ Len(connsUsed) = 1
    /\ connsUsed[1].from = "hot"
    /\ pc = "stream_error"
    /\ stream_total > MAX_PROXY_BODY_BYTES
    /\ hot = {}

\* C13: with an upgrade requested, a 101 answered as a single frame or as
\* start then end hands the connection to the caller as tunnel_socket with an
\* empty body; that connection is not in the pool while the tunnel runs nor
\* after it ended.  Without an upgrade requested no tunnel is made: a 101 is
\* returned like any response and its connection is released.
C13_TunnelDetachesConnection ==
    transport = "socket" =>
        /\ tunnel_socket # NoConn => pc = "tunnel"
        /\ pc \in {"tunnel", "tunnel_closed"} =>
              /\ websocket_upgrade_requested
              /\ status = SWITCHING_PROTOCOLS
              /\ result = "ok"
              /\ body = <<>>
              /\ httpBody = <<>>
              /\ connection = NoConn
              /\ connsUsed[Len(connsUsed)].conn \notin Pooled
              /\ tunnel_socket =
                    IF pc = "tunnel" THEN connsUsed[Len(connsUsed)].conn ELSE NoConn
        /\ (pc = "done" /\ result = "ok" /\ status = SWITCHING_PROTOCOLS) =>
              /\ ~websocket_upgrade_requested
              /\ connsUsed[Len(connsUsed)].conn \in Pooled

\* the tunnel over a connection that came from the idle list has ended
C13_Witness ==
    /\ transport = "socket"
    /\ pc = "tunnel_closed"
    /\ connsUsed[1].from = "idle"
    /\ Len(connsUsed) = 1
    /\ hot = {}

SingleTypes == {BRIDGE_RESPONSE_FRAME_TYPE, BRIDGE_RESPONSE_FRAME_TYPE_TOKENIZED}
StartTypes == {BRIDGE_RESPONSE_START_FRAME_TYPE, BRIDGE_RESPONSE_START_FRAME_TYPE_TOKENIZED}

\* C14: the socket response reader goes on without an error only when the
\* frame it read has a type allowed at that position: at the first position a
\* single-frame response (which ends the exchange) or a response-start; after
\* response-start a response-end (which ends it) or a response-chunk (which
\* starts the streamed body); inside the streamed body a response-chunk or
\* the response-end that ends it.  A frame of any other type there ends in an
\* error, and no frame is accepted anywhere else.
C14_AcceptedFrameSequences ==
    [][transport = "socket" =>
        /\ (pc = "read_first" /\ faults' = faults) =>
              \/ /\ accepted' \in SingleTypes
                 /\ pc' \in {"done", "tunnel"}
                 /\ result' = "ok"
              \/ /\ accepted' \in StartTypes
                 /\ pc' = "read_second"
        /\ (pc = "read_second" /\ faults' = faults) =>
              \/ /\ accepted' = BRIDGE_RESPONSE_END_FRAME_TYPE
                 /\ pc' \in {"done", "tunnel"}
                 /\ result' = "ok"
              \/ /\ accepted' = BRIDGE_RESPONSE_CHUNK_FRAME_TYPE
                 /\ pc' = "streaming"
                 /\ result' = "ok"
        /\ (pc = "streaming" /\ pc' # "stream_error") =>
              \/ /\ accepted' = BRIDGE_RESPONSE_CHUNK_FRAME_TYPE
                 /\ pc' \in {"streaming", "stream_closed"}
              \/ /\ accepted' = BRIDGE_RESPONSE_END_FRAME_TYPE
                 /\ pc' = "stream_end"
        /\ pc \notin {"read_first", "read_second", "streaming", "retry_connect"} =>
              accepted' = accepted
    ]_vars

\* response-start, chunk frames and response-end were accepted in turn
C14_Witness ==
    /\ transport = "socket"
    /\ pc = "stream_end"
    /\ accepted = BRIDGE_RESPONSE_END_FRAME_TYPE
    /\ respFrames >= 1
    /\ status = 200

\* payload bytes pushed by the host that the direct bridge has not received yet
RECURSIVE InboundBytes(_)
InboundBytes(q) ==
    IF q = <<>> THEN 0
    ELSE Len(Head(q).bytes) + InboundBytes(Tail(q))

\* C15: on both transports the bytes delivered on the HTTP body stream are at
\* every moment the first bytes of the chunk payloads the bridge sent, in
\* order; when response-end is consumed they are exactly all chunk bytes sent
\* before it; and the limit error of the socket stream occurs only for a body
\* of more than MAX_PROXY_BODY_BYTES bytes.
C15_StreamedBodyDelivered ==
    /\ \E k \in 0..respSent : httpBody = Range(1, k)
    /\ pc \in {"streaming", "stream_end"} =>
          httpBody = Range(1, respSent - InboundBytes(inbound))
    /\ (pc = "stream_error" /\ stream_total > MAX_PROXY_BODY_BYTES) =>
          respSent > MAX_PROXY_BODY_BYTES

\* a body of exactly MAX_PROXY_BODY_BYTES bytes sent in two chunks was
\* delivered in full and the stream ended
C15_Witness ==
    /\ transport = "socket"
    /\ pc = "stream_end"
    /\ respFrames >= 1
    /\ stream_total > 0
    /\ httpBody = Range(1, MAX_PROXY_BODY_BYTES)

StreamPcs == {"streaming", "stream_end", "stream_error", "stream_closed"}

\* C16: once a response body byte is on the HTTP body channel the call has
\* returned its one Ok result and the exchange is in the streaming task: it
\* is never back in the retry or in a request write, with an empty request
\* body as with any other, and a failure is the error item of the stream.
C16_NoRetryOnceStreaming ==
    httpBody # <<>> =>
        /\ pc \in StreamPcs
        /\ result = "ok"
        /\ results = 1
        /\ transport = "socket" => Cardinality(RequestHeads) \in 1..Len(connsUsed)
        /\ transport = "direct" => Cardinality(RequestHeads) = 1

\* a stream that failed after delivering bytes, for an empty request body that
\* had its retry still unused
C16_Witness ==
    /\ transport = "socket"
    /\ request_body_empty
    /\ ~retried
    /\ httpBody # <<>>
    /\ pc = "stream_error"
    /\ Len(connsUsed) = 1

\* C17: the step of the socket streaming task in which the send to the HTTP
\* body stream fails changes neither the hot slot nor the idle list, delivers
\* nothing and drops the connection; after it the task takes no further step.
C17_DroppedReceiverStopsTask ==
    [][transport = "socket" =>
          /\ (pc = "streaming" /\ pc' = "stream_closed") =>
                /\ hot' = hot
                /\ idle' = idle
                /\ httpBody' = httpBody
                /\ connection # NoConn
                /\ connection' = NoConn
                /\ connection \notin hot' \cup SeqToSet(idle')
          /\ pc = "stream_closed" => UNCHANGED vars]_vars

\* the receiver went away after one chunk was delivered; the connection, taken
\* from the pool, is in neither slot
C17_Witness ==
    /\ transport = "socket"
    /\ pc = "stream_closed"
    /\ httpBody # <<>>
    /\ Len(connsUsed) = 1
    /\ connsUsed[1].from = "hot"
    /\ connsUsed[1].conn \notin Pooled

\* C19: a direct request whose call has returned an error, or whose streaming
\* task has stopped, has no registry entry any more.
C19_EntryRemovedAtEnd ==
    (transport = "direct" /\ request_id # 0
        /\ (pc \in {"stream_end", "stream_error", "stream_closed"}
              \/ (pc = "done" /\ result = "err"))) =>
        request_id \notin pending

\* ---- the direct registry under concurrent requests --------------------------

\* response payloads the host pushes: a single-frame response, a start, a
\* chunk and an end that decode, and a start that does not
PushFrames ==
    {[type |-> ty, kind |-> "ok"] :
        ty \in {BRIDGE_RESPONSE_FRAME_TYPE, BRIDGE_RESPONSE_START_FRAME_TYPE,
                BRIDGE_RESPONSE_CHUNK_FRAME_TYPE, BRIDGE_RESPONSE_END_FRAME_TYPE}}
    \cup {[type |-> BRIDGE_RESPONSE_START_FRAME_TYPE, kind |-> "malformed"]}

\* the task's response_rx goes out of scope; what it held is gone with it
DropReceiver(t) ==
    /\ receivers' = receivers \ {directId[t]}
    /\ channel' = [channel EXCEPT ![directId[t]] = <<>>]

\* the request is over for the task: it can serve the next one
Return(t) ==
    /\ directPc' = [directPc EXCEPT ![t] = "idle"]
    /\ directId' = [directId EXCEPT ![t] = 0]

\* remove_pending_direct_request(direct_bridge, request_id)
RemoveEntry(t) ==
    /\ pending' = pending \ {directId[t]}
    /\ removed' = removed \cup {directId[t]}

\* response_rx.recv() yields the oldest payload and the receiver lives on
Receive(t) == channel' = [channel EXCEPT ![directId[t]] = Tail(@)]

\* FetchAdd handing out the value before the current one once more
FetchAddSkipsBack == IF next_request_id > 1 THEN next_request_id - 1 ELSE next_request_id

\* next_request_id.fetch_add(1, Ordering::Relaxed): the value before the add
FetchAdd == next_request_id

\* call_direct_bridge_request: the id is drawn
DrawRequestId(t) ==
    /\ directPc[t] = "idle"
    /\ Len(issued) < MaxRequests
    /\ directId' = [directId EXCEPT ![t] = FetchAdd]
    /\ issued' = Append(issued, FetchAdd)
    /\ next_request_id' = next_request_id + 1
    /\ directPc' = [directPc EXCEPT ![t] = "insert"]
    /\ UNCHANGED <<pending, removed, channel, receivers, pushes, lastPush>>

\* call_direct_bridge_request: the channel is made and the entry inserted
InsertPending(t) ==
    /\ directPc[t] = "insert"
    /\ pending' = pending \cup {directId[t]}
    /\ receivers' = receivers \cup {directId[t]}
    /\ directPc' = [directPc EXCEPT ![t] = "emit"]
    /\ UNCHANGED <<next_request_id, directId, issued, removed, channel, pushes, lastPush>>

\* emit_direct_bridge_request succeeds: the callback has the request
EmitRequest(t) ==
    /\ directPc[t] = "emit"
    /\ directPc' = [directPc EXCEPT ![t] = "wait_first"]
    /\ UNCHANGED <<next_request_id, pending, directId, issued, removed, channel,
                   receivers, pushes, lastPush>>

\* emit_direct_bridge_request fails: the entry is removed, Err returned
EmitFails(t) ==
    /\ directPc[t] = "emit"
    /\ RemoveEntry(t)
    /\ DropReceiver(t)
    /\ Return(t)
    /\ UNCHANGED <<next_request_id, issued, pushes, lastPush>>

\* no payload within DIRECT_REQUEST_TIMEOUT, in the call or in the streaming task
WaitTimeout(t) ==
    /\ directPc[t] \in {"wait_first", "streaming"}
    /\ channel[directId[t]] = <<>>
    /\ RemoveEntry(t)
    /\ DropReceiver(t)
    /\ Return(t)
    /\ UNCHANGED <<next_request_id, issued, pushes, lastPush>>

\* call_direct_bridge_request: the first payload is received
FirstPayload(t) ==
    /\ directPc[t] = "wait_first"
    /\ channel[directId[t]] # <<>>
    /\ LET f == Head(channel[directId[t]]) IN
          IF is_bridge_response_frame_type(f.type)
          THEN /\ IF f.kind = "malformed" THEN UNCHANGED <<pending, removed>> ELSE RemoveEntry(t)
               /\ DropReceiver(t)
               /\ Return(t)
          ELSE IF ~is_bridge_response_start_frame_type(f.type)
          THEN /\ RemoveEntry(t)
               /\ DropReceiver(t)
               /\ Return(t)
          ELSE IF f.kind = "malformed"
          THEN /\ UNCHANGED <<pending, removed>>
               /\ DropReceiver(t)
               /\ Return(t)
          ELSE /\ Receive(t)
               /\ \E next \in {"streaming", "tunnel"} :
                     directPc' = [directPc EXCEPT ![t] = next]
               /\ UNCHANGED <<pending, removed, receivers, directId>>
    /\ UNCHANGED <<next_request_id, issued, pushes, lastPush>>

\* stream_direct_bridge_response_frames: one payload received; a chunk goes to
\* the HTTP body stream, and the loop ends when that send fails
StreamPayload(t) ==
    /\ directPc[t] = "streaming"
    /\ channel[directId[t]] # <<>>
    /\ \/ /\ Head(channel[directId[t]]).type = BRIDGE_RESPONSE_CHUNK_FRAME_TYPE
          /\ Receive(t)
          /\ UNCHANGED <<pending, removed, receivers, directPc, directId>>
       \/ /\ RemoveEntry(t)
          /\ DropReceiver(t)
          /\ Return(t)
    /\ UNCHANGED <<next_request_id, issued, pushes, lastPush>>

\* run_direct_websocket_tunnel: `upgrade.await ... ?` fails, the function returns
TunnelUpgradeFails(t) ==
    /\ directPc[t] = "tunnel"
    /\ DropReceiver(t)
    /\ Return(t)
    /\ UNCHANGED <<next_request_id, pending, issued, removed, pushes, lastPush>>

\* run_direct_websocket_tunnel, callback_to_frontend: one payload received; a
\* response-end is ignored, anything else here ends the task
TunnelPayload(t) ==
    /\ directPc[t] = "tunnel"
    /\ channel[directId[t]] # <<>>
    /\ IF Head(channel[directId[t]]).type = BRIDGE_RESPONSE_END_FRAME_TYPE
       THEN /\ Receive(t)
            /\ UNCHANGED <<receivers, directPc>>
       ELSE /\ DropReceiver(t)
            /\ directPc' = [directPc EXCEPT ![t] = "tunnel_join"]
    /\ UNCHANGED <<next_request_id, pending, directId, issued, removed, pushes, lastPush>>

\* run_direct_websocket_tunnel, callback_to_frontend: the wait times out
TunnelTimeout(t) ==
    /\ directPc[t] = "tunnel"
    /\ channel[directId[t]] = <<>>
    /\ receivers' = receivers \ {directId[t]}
    /\ directPc' = [directPc EXCEPT ![t] = "tunnel_join"]
    /\ UNCHANGED <<next_request_id, pending, directId, issued, removed, channel, pushes,
                   lastPush>>

\* run_direct_websocket_tunnel: both halves joined, the entry is removed
TunnelComplete(t) ==
    /\ directPc[t] = "tunnel_join"
    /\ RemoveEntry(t)
    /\ Return(t)
    /\ UNCHANGED <<next_request_id, issued, channel, receivers, pushes,
                   lastPush>>

\* response_tx.send(response.to_vec()) on the unbounded channel
Send(q, f) == Append(q, f)

\* server_native_push_direct_response_frame(handle, request_id, payload, len),
\* also reached through its alias server_native_complete_direct_request
PushDirectResponseFrame(id, f) ==
    /\ pushes < MaxPushes
    /\ pushes' = pushes + 1
    /\ IF id \notin pending
       THEN /\ lastPush' = [known |-> FALSE, ret |-> 0]
            /\ UNCHANGED channel
       ELSE IF id \notin receivers
       THEN /\ lastPush' = [known |-> TRUE, ret |-> 0]
            /\ UNCHANGED channel
       ELSE /\ lastPush' = [known |-> TRUE, ret |-> 1]
            /\ channel' = [channel EXCEPT ![id] =
                              Send(@, f)]
    /\ UNCHANGED <<next_request_id, pending, directPc, directId, issued, removed,
                   receivers>>

\* the one exchange and the pool stand still in the registry model
RegistryFrame ==
    UNCHANGED <<poolVars, taskVars, reqVars, callVars, clockVars, request_id, inbound,
                lockVars, tunVars, codecVars, serveVars>>

RegistryInit == PoolNew /\ TasksIdle /\ NoExchange /\ SideIdle

RegistryNext ==
    \/ \E t \in DirectTasks :
          \/ DrawRequestId(t) /\ RegistryFrame
          \/ InsertPending(t) /\ RegistryFrame
          \/ EmitRequest(t) /\ RegistryFrame
          \/ EmitFails(t) /\ RegistryFrame
          \/ WaitTimeout(t) /\ RegistryFrame
          \/ FirstPayload(t) /\ RegistryFrame
          \/ StreamPayload(t) /\ RegistryFrame
          \/ TunnelUpgradeFails(t) /\ RegistryFrame
          \/ TunnelPayload(t) /\ RegistryFrame
          \/ TunnelTimeout(t) /\ RegistryFrame
          \/ TunnelComplete(t) /\ RegistryFrame
    \/ \E id \in RequestIds, f \in PushFrames :
          PushDirectResponseFrame(id, f) /\ RegistryFrame

SpecRegistry == RegistryInit /\ [][RegistryNext]_vars

\* ---- claims about the direct registry -----------------------------------------

\* C18: the ids drawn are 1, 2, 3, ... in the order of the atomic steps, so
\* they strictly increase and no two requests hold the same id, whatever the
\* interleaving; an id whose entry was removed has no entry again and is not
\* the id of any running request.
C18_RequestIdsUnique ==
    /\ \A i \in 1..Len(issued) : issued[i] = i
    /\ next_request_id = Len(issued) + 1
    /\ \A t, u \in DirectTasks : (t # u /\ directId[t] # 0) => directId[t] # directId[u]
    /\ \A t \in DirectTasks : directId[t] # 0 => directId[t] \in SeqToSet(issued)
    /\ removed \cap pending = {}
    /\ \A t \in DirectTasks : directPc[t] \in {"insert", "emit", "wait_first", "streaming"} =>
          directId[t] \notin removed

\* two requests are in flight with different ids after the first id was retired
C18_Witness ==
    /\ 1 \in removed
    /\ \E t, u \in DirectTasks :
          /\ directId[t] = 2
          /\ directId[u] = 3
          /\ directPc[t] = "wait_first"
          /\ directPc[u] = "insert"

\* C20: a push for an id that has a registry entry returns 1.
C20_KnownIdAccepted == lastPush.known => lastPush.ret = 1

\* ---- claims about the direct exchange and the tunnels --------------------------

\* the types of the payloads handed to the callback, in order
EmittedTypes == [i \in 1..Len(sent) |-> sent[i].frame.type]
IsBracketForm(ts) ==
    ts = <<BRIDGE_REQUEST_START_FRAME_TYPE_TOKENIZED, BRIDGE_REQUEST_END_FRAME_TYPE>>

\* C21: the payloads handed to the callback all carry the request's id; once
\* emit_direct_bridge_request has returned Ok they are one single-frame request
\* (no body byte, no upgrade request), start then end (no body byte, upgrade
\* request) or start, one or more chunks, end (body bytes); while it runs, and
\* after it failed, they are the first payloads of such a sequence.
C21_DirectPayloadForms ==
    transport = "direct" =>
        /\ \A i \in 1..Len(sent) : sent[i].id = request_id /\ request_id # 0
        /\ \/ IsFormPrefix(EmittedTypes)
           \/ IsBracketForm(EmittedTypes)
        /\ (pc = "d_wait_first" \/ result = "ok") =>
              /\ (bodyPulled = 0 /\ ~websocket_upgrade_requested) => IsSingleForm(EmittedTypes)
              /\ (bodyPulled = 0 /\ websocket_upgrade_requested) => IsBracketForm(EmittedTypes)
              /\ bodyPulled > 0 => IsStreamedForm(EmittedTypes)

\* an upgrade request whose body stream held only an empty chunk was emitted as
\* start and end
C21_Witness ==
    /\ transport = "direct"
    /\ pc = "d_wait_first"
    /\ websocket_upgrade_requested
    /\ ~request_body_known_empty
    /\ pulls > 0
    /\ IsBracketForm(EmittedTypes)

\* C22: a wait of the direct bridge ends without a frame only when
\* DIRECT_REQUEST_TIMEOUT has passed since that wait began with no frame
\* queued, whatever time the earlier waits took: the first wait then returns
\* an error and a wait of the streaming task puts an error on the body stream,
\* and both remove the registry entry.
C22_TimeoutPerWait ==
    [][transport = "direct" =>
          /\ (pc = "d_wait_first" /\ pc' # pc /\ inbound = <<>>) =>
                /\ elapsed - waitStart >= DIRECT_REQUEST_TIMEOUT
                /\ pc' = "done"
                /\ result' = "err"
                /\ request_id \notin pending'
          /\ (pc = "streaming" /\ pc' # pc /\ inbound = <<>>) =>
                /\ elapsed - waitStart >= DIRECT_REQUEST_TIMEOUT
                /\ pc' = "stream_error"
                /\ request_id \notin pending']_vars

\* a streamed response that took longer than the timeout in all and ended
\* without one
C22_Witness ==
    /\ transport = "direct"
    /\ pc = "stream_end"
    /\ elapsed > DIRECT_REQUEST_TIMEOUT
    /\ httpBody # <<>>

MaxEmits == 2
MaxPushCalls == 2

\* everything but the registry entry of the request and the lock
CallbackFrame ==
    UNCHANGED <<poolVars, taskVars, reqVars, callVars, clockVars, regVars, tunVars,
                codecVars, serveVars>>

\* call_direct_bridge_request: fetch_add, then pending.lock().insert(..) in one
\* statement, whose guard is dropped at its end
EmitRegister ==
    /\ emitPc = "idle"
    /\ mutex = "none"
    /\ request_id' = next_request_id
    /\ next_request_id' = next_request_id + 1
    /\ pending' = pending \cup {next_request_id}
    /\ emitPc' = "emit"
    /\ UNCHANGED <<mutex, emits, inflight_payloads, allocated, payload_ptr, pushPc,
                   pushCalls, inbound>>

\* emit_direct_callback_payload: direct_bridge.pending.lock()
EmitLock ==
    /\ emitPc = "emit"
    /\ emits < MaxEmits
    /\ mutex = "none"
    /\ mutex' = "task"
    /\ allocated' = allocated \cup {emits + 1}
    /\ emitPc' = "locked"
    /\ UNCHANGED <<emits, inflight_payloads, payload_ptr, pushPc, pushCalls, directVars>>

\* under the lock: get_mut(&request_id), push the payload on inflight_payloads,
\* take (as_ptr, len) of the stored payload; without the entry the payload is
\* dropped and Err returned.  The guard is dropped at the end of the block.
EmitStore ==
    /\ emitPc = "locked"
    /\ IF request_id \in pending
       THEN /\ inflight_payloads' = Append(inflight_payloads, emits + 1)
            /\ payload_ptr' = emits + 1
            /\ emitPc' = "stored"
            /\ UNCHANGED <<mutex, allocated>>
       ELSE /\ allocated' = allocated \ {emits + 1}
            /\ mutex' = "none"
            /\ emitPc' = "emit"
            /\ UNCHANGED <<inflight_payloads, payload_ptr>>
    /\ UNCHANGED <<emits, pushPc, pushCalls, directVars>>

\* EmitUnlock with the callback called inside the block that holds the guard
EmitUnlockAfterCallback ==
    /\ emitPc = "stored"
    /\ emitPc' = "call"
    /\ UNCHANGED <<mutex, emits, inflight_payloads, allocated, payload_ptr, pushPc,
                   pushCalls, directVars>>

\* the block ends: the MutexGuard is dropped
EmitUnlock ==
    /\ emitPc = "stored"
    /\ mutex' = "none"
    /\ emitPc' = "call"
    /\ UNCHANGED <<emits, inflight_payloads, allocated, payload_ptr, pushPc, pushCalls,
                   directVars>>

\* (direct_bridge.callback)(request_id, payload_ptr, payload_len) is entered
CallbackEnter ==
    /\ emitPc = "call"
    /\ emitPc' = "in_callback"
    /\ UNCHANGED <<mutex, emits, inflight_payloads, allocated, payload_ptr, pushPc,
                   pushCalls, directVars>>

\* the callback returns, emit_direct_callback_payload returns Ok
CallbackReturn ==
    /\ emitPc = "in_callback"
    /\ pushPc["task"] = "idle"
    /\ emits' = emits + 1
    /\ payload_ptr' = 0
    /\ emitPc' = "emit"
    /\ UNCHANGED <<mutex, inflight_payloads, allocated, pushPc, pushCalls, directVars>>

\* remove_pending_direct_request by the request's task, after its emissions:
\* pending.lock().remove(&request_id) drops the entry with its payloads
EmitRemove ==
    /\ emitPc = "emit"
    /\ emits > 0
    /\ mutex = "none"
    /\ pending' = pending \ {request_id}
    /\ allocated' = allocated \ SeqToSet(inflight_payloads)
    /\ inflight_payloads' = <<>>
    /\ emitPc' = "removed"
    /\ UNCHANGED <<mutex, emits, payload_ptr, pushPc, pushCalls, next_request_id,
                   request_id, inbound>>

\* server_native_push_direct_response_frame is called on thread th with the
\* request's id: by the host's code inside the callback, or from a host thread
PushCall(th) ==
    /\ pushPc[th] = "idle"
    /\ pushCalls < MaxPushCalls
    /\ request_id # 0
    /\ th = "task" => emitPc = "in_callback"
    /\ pushCalls' = pushCalls + 1
    /\ pushPc' = [pushPc EXCEPT ![th] = "lock"]
    /\ UNCHANGED <<mutex, emitPc, emits, inflight_payloads, allocated, payload_ptr,
                   directVars>>

\* direct_bridge.pending.lock() returns once no thread holds the mutex
PushLock(th) ==
    /\ pushPc[th] = "lock"
    /\ mutex = "none"
    /\ mutex' = th
    /\ pushPc' = [pushPc EXCEPT ![th] = "locked"]
    /\ UNCHANGED <<emitPc, emits, inflight_payloads, allocated, payload_ptr, pushCalls,
                   directVars>>

\* under the lock: clone the entry's response_tx, or return 0 without an entry;
\* the guard is dropped at the end of the block
PushLookup(th) ==
    /\ pushPc[th] = "locked"
    /\ mutex' = "none"
    /\ pushPc' = [pushPc EXCEPT ![th] = IF request_id \in pending THEN "send" ELSE "idle"]
    /\ UNCHANGED <<emitPc, emits, inflight_payloads, allocated, payload_ptr, pushCalls,
                   directVars>>

\* response_tx.send(response.to_vec()) on the unbounded channel
PushSend(th) ==
    /\ pushPc[th] = "send"
    /\ inbound' = Send(inbound, RespFrame("ok", BRIDGE_RESPONSE_FRAME_TYPE, 200, <<>>))
    /\ pushPc' = [pushPc EXCEPT ![th] = "idle"]
    /\ UNCHANGED <<mutex, emitPc, emits, inflight_payloads, allocated, payload_ptr,
                   pushCalls, next_request_id, request_id, pending>>

CallbackInit == PoolNew /\ TasksIdle /\ NoExchange /\ SideIdle

CallbackNext ==
    \/ EmitRegister /\ CallbackFrame
    \/ EmitLock /\ CallbackFrame
    \/ EmitStore /\ CallbackFrame
    \/ EmitUnlock /\ CallbackFrame
    \/ CallbackEnter /\ CallbackFrame
    \/ CallbackReturn /\ CallbackFrame
    \/ EmitRemove /\ CallbackFrame
    \/ \E th \in Threads :
          \/ PushCall(th) /\ CallbackFrame
          \/ PushLock(th) /\ CallbackFrame
          \/ PushLookup(th) /\ CallbackFrame
          \/ PushSend(th) /\ CallbackFrame

SpecCallback == CallbackInit /\ [][CallbackNext]_vars

\* C24: the direct callback runs with the registry mutex released by its thread
\* and with its payload stored in the request's retention list and still
\* allocated; a push called from inside the callback or from another thread
\* never waits for a mutex its own thread holds, and whoever holds the mutex is
\* inside a block that releases it without waiting.
C24_CallbackOutsideLock ==
    /\ emitPc \in {"call", "in_callback"} =>
          /\ mutex # "task" \/ pushPc["task"] = "locked"
          /\ payload_ptr # 0
          /\ payload_ptr \in SeqToSet(inflight_payloads)
          /\ payload_ptr \in allocated
          /\ request_id \in pending
    /\ \A th \in Threads : pushPc[th] = "lock" => mutex # th
    /\ mutex = "host" => pushPc["host"] = "locked"
    /\ mutex = "task" => emitPc \in {"locked", "stored"} \/ pushPc["task"] = "locked"

\* the host's code pushes from inside the callback of the second payload while
\* a host thread is inside its own push, and the push from the callback is sent
C24_Witness ==
    /\ emitPc = "in_callback"
    /\ emits = 1
    /\ pushPc["task"] = "send"
    /\ pushPc["host"] = "locked"
    /\ payload_ptr \in allocated

\* ---- one WebSocket tunnel, in either shape ----------------------------------

MaxClientReads == 2
MaxPeerFrames == 3

RECURSIVE Concat(_)
Concat(ss) == IF ss = <<>> THEN <<>> ELSE Head(ss) \o Concat(Tail(ss))

\* everything but the tunnel, the request's registry entry and its queue
TunnelFrame ==
    UNCHANGED <<poolVars, taskVars, reqVars, callVars, clockVars, regVars, lockVars,
                codecVars, serveVars>>

\* a request that asked for an upgrade is about to be answered with 101
TunnelInit ==
    /\ PoolNew /\ TasksIdle /\ NoExchange /\ RegistryIdle /\ LockIdle /\ CodecIdle
    /\ ServeIdle
    /\ shape \in {"socket", "direct"}
    /\ tunPc = "spawn"
    /\ tunResult = "none"
    /\ upPc = "none"
    /\ downPc = "none"
    /\ reads = <<>>
    /\ toBridge = <<>>
    /\ toClient = <<>>
    /\ taken = <<>>
    /\ peerBytes = 0
    /\ peerFrames = 0

\* the tunnel function is spawned: by proxy_request with the detached bridge
\* socket, or by call_direct_bridge_request, which has drawn the request's id
\* and inserted its entry, with that id and the entry's receiver
TunnelSpawn ==
    /\ tunPc = "spawn"
    /\ tunPc' = "upgrade"
    /\ IF shape = "direct"
       THEN /\ request_id' = next_request_id
            /\ next_request_id' = next_request_id + 1
            /\ pending' = pending \cup {next_request_id}
       ELSE UNCHANGED <<request_id, next_request_id, pending>>
    /\ UNCHANGED <<shape, tunResult, upPc, downPc, reads, toBridge, toClient, taken,
                   peerBytes, peerFrames, inbound>>

TunnelChunkFrame(bytes) ==
    [type |-> BRIDGE_TUNNEL_CHUNK_FRAME_TYPE, bytes |-> bytes, id |-> request_id]
TunnelCloseFrame ==
    [type |-> BRIDGE_TUNNEL_CLOSE_FRAME_TYPE, bytes |-> <<>>, id |-> request_id]

\* upgrade.await succeeds: both streams are split and the two tasks spawned
TunnelUpgraded ==
    /\ tunPc = "upgrade"
    /\ tunPc' = "run"
    /\ upPc' = "run"
    /\ downPc' = "run"
    /\ UNCHANGED <<shape, tunResult, reads, toBridge, toClient, taken, peerBytes,
                   peerFrames, directVars>>

\* upgrade.await fails: Err is returned with `?`
TunnelUpgradeErr ==
    /\ tunPc = "upgrade"
    /\ tunPc' = "returned"
    /\ tunResult' = "err"
    /\ UNCHANGED <<shape, upPc, downPc, reads, toBridge, toClient, taken, peerBytes,
                   peerFrames, directVars>>

\* ForwardRead with one frame for each byte of the read
ForwardReadPerByte(bytes) == [i \in 1..Len(bytes) |-> TunnelChunkFrame(<<bytes[i]>>)]

\* write_bridge_tunnel_chunk_frame(&buffer[..read]) / emit_direct_tunnel_chunk,
\* whose chunks(BRIDGE_BODY_CHUNK_BYTES) of a read that fits the buffer is one
\* piece
ForwardRead(bytes) ==
    [i \in 1..((Len(bytes) + BRIDGE_BODY_CHUNK_BYTES - 1) \div BRIDGE_BODY_CHUNK_BYTES) |->
        TunnelChunkFrame(SubSeq(bytes, (i - 1) * BRIDGE_BODY_CHUNK_BYTES + 1,
                                IF i * BRIDGE_BODY_CHUNK_BYTES < Len(bytes)
                                THEN i * BRIDGE_BODY_CHUNK_BYTES ELSE Len(bytes)))]

\* the bridge side takes what the client-to-bridge task writes: always for the
\* callback of an id that has its entry, and unless the write fails on the socket
CanForward == IF shape = "direct" THEN {request_id \in pending} ELSE BOOLEAN

\* client-to-bridge task: a read of n > 0 bytes into the buffer of
\* BRIDGE_BODY_CHUNK_BYTES, forwarded as a tunnel-chunk
ClientRead ==
    /\ upPc = "run"
    /\ Len(reads) < MaxClientReads
    /\ \E n \in 1..BRIDGE_BODY_CHUNK_BYTES, written \in CanForward :
          LET from == Len(Concat(reads))
              bytes == Range(from + 1, from + n)
          IN /\ reads' = Append(reads, bytes)
             /\ IF written
                THEN toBridge' = toBridge \o ForwardRead(bytes) /\ UNCHANGED upPc
                ELSE upPc' = "err" /\ UNCHANGED toBridge
    /\ UNCHANGED <<shape, tunPc, tunResult, downPc, toClient, taken, peerBytes,
                   peerFrames, directVars>>

\* client-to-bridge task: read returns 0; the tunnel-close is written and the
\* task returns Ok
ClientEof ==
    /\ upPc = "run"
    /\ \E written \in CanForward :
          IF written
          THEN toBridge' = Append(toBridge, TunnelCloseFrame) /\ upPc' = "eof"
          ELSE upPc' = "err" /\ UNCHANGED toBridge
    /\ UNCHANGED <<shape, tunPc, tunResult, downPc, reads, toClient, taken, peerBytes,
                   peerFrames, directVars>>

\* client-to-bridge task: the read fails
ClientReadErr ==
    /\ upPc = "run"
    /\ upPc' = "err"
    /\ UNCHANGED <<shape, tunPc, tunResult, downPc, reads, toBridge, toClient, taken,
                   peerBytes, peerFrames, directVars>>

\* what the peer can send into a tunnel
TunnelPeerFrames ==
    {RespFrame("ok", BRIDGE_TUNNEL_CHUNK_FRAME_TYPE, 0, Range(peerBytes + 1, peerBytes + n)) :
        n \in 0..MaxRespChunkLen}
    \cup {RespFrame("ok", ty, 0, <<>>) :
            ty \in {BRIDGE_TUNNEL_CLOSE_FRAME_TYPE, BRIDGE_RESPONSE_END_FRAME_TYPE,
                    BRIDGE_RESPONSE_CHUNK_FRAME_TYPE}}
    \cup {RespFrame("malformed", ty, 0, <<>>) :
            ty \in {BRIDGE_TUNNEL_CHUNK_FRAME_TYPE, BRIDGE_TUNNEL_CLOSE_FRAME_TYPE,
                    BRIDGE_RESPONSE_END_FRAME_TYPE}}
    \cup {RespFrame("short", 0, 0, <<>>)}

\* the bridge writes a frame on the socket, or the host pushes one for the id
\* (server_native_push_direct_response_frame finds the entry)
PeerSend ==
    /\ tunPc \in {"upgrade", "run"}
    /\ shape = "direct" => request_id \in pending
    /\ peerFrames < MaxPeerFrames
    /\ Len(inbound) < MaxInbound
    /\ \E f \in TunnelPeerFrames :
          /\ inbound' = Append(inbound, f)
          /\ peerBytes' = peerBytes + Len(f.bytes)
    /\ peerFrames' = peerFrames + 1
    /\ UNCHANGED <<shape, tunPc, tunResult, upPc, downPc, reads, toBridge, toClient,
                   taken, next_request_id, request_id, pending>>

\* run_websocket_tunnel, bridge_to_frontend: what one frame leads to
SocketTunnelOutcome(f) ==
    IF ~peek_bridge_frame_type_ok(f) THEN "fail"
    ELSE IF f.type = BRIDGE_TUNNEL_CHUNK_FRAME_TYPE
    THEN IF f.kind = "malformed" THEN "fail"
         ELSE IF f.bytes = <<>> THEN "skip" ELSE "write"
    ELSE IF f.type = BRIDGE_TUNNEL_CLOSE_FRAME_TYPE
    THEN IF f.kind = "malformed" THEN "fail" ELSE "stop"
    ELSE "fail"

\* DirectTunnelOutcome without the branch for BRIDGE_RESPONSE_END_FRAME_TYPE
DirectTunnelOutcomeNoEnd(f) == SocketTunnelOutcome(f)

\* run_direct_websocket_tunnel, callback_to_frontend: what one payload leads to
DirectTunnelOutcome(f) ==
    IF ~peek_bridge_frame_type_ok(f) THEN "fail"
    ELSE IF f.type = BRIDGE_RESPONSE_END_FRAME_TYPE
    THEN IF f.kind = "malformed" THEN "fail" ELSE "skip"
    ELSE SocketTunnelOutcome(f)

TunnelOutcome(f) ==
    IF shape = "direct" THEN DirectTunnelOutcome(f) ELSE SocketTunnelOutcome(f)

\* frontend_writer.write_all(&chunk)
WriteToClient(bytes) == toClient \o bytes

\* bridge-to-client task: one frame is read and handled
TunnelTakeFrame ==
    /\ downPc = "run"
    /\ inbound # <<>>
    /\ inbound' = Tail(inbound)
    /\ taken' = Append(taken, Head(inbound))
    /\ LET f == Head(inbound)
           outcome == TunnelOutcome(f)
       IN IF outcome = "write"
          THEN \/ toClient' = WriteToClient(f.bytes) /\ UNCHANGED downPc
               \/ downPc' = "err" /\ UNCHANGED toClient
          ELSE /\ downPc' = IF outcome = "skip" THEN "run"
                            ELSE IF outcome = "stop" THEN "close" ELSE "err"
               /\ UNCHANGED toClient
    /\ UNCHANGED <<shape, tunPc, tunResult, upPc, reads, toBridge, peerBytes, peerFrames,
                   next_request_id, request_id, pending>>

\* bridge-to-client task of the socket shape: read_bridge_frame returns None
\* (the bridge closed its side), or fails
BridgeReadEnds ==
    /\ shape = "socket"
    /\ downPc = "run"
    /\ inbound = <<>>
    /\ downPc' \in {"eof", "err"}
    /\ UNCHANGED <<shape, tunPc, tunResult, upPc, reads, toBridge, toClient, taken,
                   peerBytes, peerFrames, directVars>>

\* bridge-to-client task of the direct shape: no payload within
\* DIRECT_REQUEST_TIMEOUT
TunnelWaitTimeout ==
    /\ shape = "direct"
    /\ downPc = "run"
    /\ inbound = <<>>
    /\ downPc' = "timeout"
    /\ UNCHANGED <<shape, tunPc, tunResult, upPc, reads, toBridge, toClient, taken,
                   peerBytes, peerFrames, directVars>>

\* tokio::join! has both results; the direct shape removes the entry; the
\* function returns the first Err, or Ok
TunnelJoin ==
    /\ tunPc = "run"
    /\ upPc # "run"
    /\ downPc # "run"
    /\ tunPc' = "returned"
    /\ tunResult' = IF upPc = "err" \/ downPc \in {"err", "timeout"} THEN "err" ELSE "ok"
    /\ IF shape = "direct" THEN RemovePending ELSE UNCHANGED pending
    /\ UNCHANGED <<shape, upPc, downPc, reads, toBridge, toClient, taken, peerBytes,
                   peerFrames, next_request_id, request_id, inbound>>

TunnelNext ==
    \/ TunnelSpawn /\ TunnelFrame
    \/ TunnelUpgraded /\ TunnelFrame
    \/ TunnelUpgradeErr /\ TunnelFrame
    \/ ClientRead /\ TunnelFrame
    \/ ClientEof /\ TunnelFrame
    \/ ClientReadErr /\ TunnelFrame
    \/ PeerSend /\ TunnelFrame
    \/ TunnelTakeFrame /\ TunnelFrame
    \/ BridgeReadEnds /\ TunnelFrame
    \/ TunnelWaitTimeout /\ TunnelFrame
    \/ TunnelJoin /\ TunnelFrame

SpecTunnel == TunnelInit /\ [][TunnelNext]_vars

\* ---- claims about the tunnels ------------------------------------------------

IsPrefix(a, b) == Len(a) <= Len(b) /\ a = SubSeq(b, 1, Len(a))

RECURSIVE TunnelChunkPayloads(_)
TunnelChunkPayloads(fs) ==
    IF fs = <<>> THEN <<>>
    ELSE (IF Head(fs).type = BRIDGE_TUNNEL_CHUNK_FRAME_TYPE THEN <<Head(fs).bytes>> ELSE <<>>)
         \o TunnelChunkPayloads(Tail(fs))

IsGood(f, ty) == f.kind = "ok" /\ f.type = ty
IsGoodChunk(f) == IsGood(f, BRIDGE_TUNNEL_CHUNK_FRAME_TYPE)

\* the payload bytes of the well-formed tunnel-chunk frames of fs, in order
RECURSIVE GoodChunkBytes(_)
GoodChunkBytes(fs) ==
    IF fs = <<>> THEN <<>>
    ELSE (IF IsGoodChunk(Head(fs)) THEN Head(fs).bytes ELSE <<>>) \o GoodChunkBytes(Tail(fs))

\* the client-to-bridge direction has forwarded each read as one tunnel-chunk
\* with the bytes of the read, in order, and a tunnel-close only as the last
\* frame, exactly when it ended on the client's end-of-stream
ReadsForwarded ==
    /\ \A i \in 1..Len(toBridge) :
          /\ toBridge[i].type \in {BRIDGE_TUNNEL_CHUNK_FRAME_TYPE, BRIDGE_TUNNEL_CLOSE_FRAME_TYPE}
          /\ toBridge[i].type = BRIDGE_TUNNEL_CLOSE_FRAME_TYPE => i = Len(toBridge)
    /\ IsPrefix(TunnelChunkPayloads(toBridge), reads)
    /\ Len(TunnelChunkPayloads(toBridge)) >= Len(reads) - 1
    /\ upPc \in {"run", "eof"} => TunnelChunkPayloads(toBridge) = reads
    /\ upPc = "eof" <=>
          (toBridge # <<>> /\ Last(toBridge).type = BRIDGE_TUNNEL_CLOSE_FRAME_TYPE)

\* the client has got the payload bytes of the tunnel-chunk frames taken so far,
\* in order (but for a last write that failed)
ChunksWritten ==
    /\ IsPrefix(toClient, GoodChunkBytes(taken))
    /\ downPc # "err" => toClient = GoodChunkBytes(taken)
    /\ (taken # <<>> /\ ~IsGoodChunk(Last(taken))) => toClient = GoodChunkBytes(taken)
    /\ toClient = Range(1, Len(toClient))

\* C25: in the socket tunnel each non-empty read from the client is one
\* tunnel-chunk frame with the bytes of the read, in read order, and the
\* client's end-of-stream is one tunnel-close, the last frame written; towards
\* the client the payloads of the tunnel-chunk frames are written in order, a
\* tunnel-close stops the direction and any other type is an error.
C25_SocketTunnelForwards ==
    shape = "socket" =>
        /\ ReadsForwarded
        /\ ChunksWritten
        /\ \A i \in 1..(Len(taken) - 1) : IsGoodChunk(taken[i])
        /\ taken # <<>> =>
              /\ IsGood(Last(taken), BRIDGE_TUNNEL_CLOSE_FRAME_TYPE) => downPc = "close"
              /\ IsGoodChunk(Last(taken)) => downPc \in {"run", "eof", "err"}
              /\ (~IsGood(Last(taken), BRIDGE_TUNNEL_CLOSE_FRAME_TYPE)
                  /\ ~IsGoodChunk(Last(taken))) => downPc = "err"
        /\ downPc = "close" =>
              taken # <<>> /\ IsGood(Last(taken), BRIDGE_TUNNEL_CLOSE_FRAME_TYPE)

\* two reads of different sizes were forwarded and closed, bytes of two frames
\* reached the client before the bridge's tunnel-close, and the tunnel returned
C25_Witness ==
    /\ shape = "socket"
    /\ tunPc = "returned" /\ tunResult = "ok"
    /\ Len(reads) = 2 /\ Len(reads[1]) # Len(reads[2])
    /\ Len(toBridge) = 3
    /\ Len(taken) = 3 /\ downPc = "close"
    /\ Len(toClient) > MaxRespChunkLen

\* C26: in both tunnel shapes, once one direction has ended the other direction
\* is stopped: it reads, takes and forwards nothing more.
C26_EitherEndStopsTunnel ==
    [][tunPc = "run" =>
          /\ upPc # "run" => (taken' = taken /\ toClient' = toClient)
          /\ downPc # "run" => (reads' = reads /\ toBridge' = toBridge)]_vars

\* C27: in the direct tunnel the host-to-client direction takes a response-end
\* at any point and goes on, writes the payloads of tunnel-chunk frames in
\* order, stops on tunnel-close and fails on any other type; what the client
\* sends is given to the callback as tunnel-chunk and tunnel-close payloads with
\* the request's id.
C27_DirectTunnelFrames ==
    shape = "direct" =>
        /\ ReadsForwarded
        /\ \A i \in 1..Len(toBridge) : toBridge[i].id = request_id /\ request_id # 0
        /\ ChunksWritten
        /\ \A i \in 1..(Len(taken) - 1) :
              IsGoodChunk(taken[i]) \/ IsGood(taken[i], BRIDGE_RESPONSE_END_FRAME_TYPE)
        /\ taken # <<>> =>
              /\ IsGood(Last(taken), BRIDGE_RESPONSE_END_FRAME_TYPE) =>
                    downPc \in {"run", "timeout"}
              /\ IsGood(Last(taken), BRIDGE_TUNNEL_CLOSE_FRAME_TYPE) => downPc = "close"
              /\ (~IsGood(Last(taken), BRIDGE_RESPONSE_END_FRAME_TYPE)
                  /\ ~IsGood(Last(taken), BRIDGE_TUNNEL_CLOSE_FRAME_TYPE)
                  /\ ~IsGoodChunk(Last(taken))) => downPc = "err"
        /\ downPc = "close" =>
              taken # <<>> /\ IsGood(Last(taken), BRIDGE_TUNNEL_CLOSE_FRAME_TYPE)

\* a response-end was taken, a tunnel-chunk after it was written to the client,
\* the tunnel-close stopped the direction, and the client's bytes were emitted
C27_Witness ==
    /\ shape = "direct"
    /\ Len(taken) = 3
    /\ IsGood(taken[1], BRIDGE_RESPONSE_END_FRAME_TYPE)
    /\ IsGoodChunk(taken[2])
    /\ toClient # <<>>
    /\ downPc = "close"
    /\ upPc = "eof" /\ Len(toBridge) = 2

\* ---- the wire codec ------------------------------------------------------------

BRIDGE_HEADER_NAME_LITERAL_TOKEN == 65535
NoToken == 0 - 1

\* to_be_bytes of a u16 and of a u32
U16(n) == <<(n \div 256) % 256, n % 256>>
U32(n) == <<(n \div 16777216) % 256, (n \div 65536) % 256, (n \div 256) % 256, n % 256>>

\* u16::from_be_bytes, u32::from_be_bytes.  A u32 with its top bit set is read
\* as MaxLength: such a value is only ever compared with lengths far below it
MaxLength == 2147483647
FromU16(b) == b[1] * 256 + b[2]
FromU32(b) ==
    IF b[1] >= 128 THEN MaxLength
    ELSE b[1] * 16777216 + b[2] * 65536 + b[3] * 256 + b[4]

\* BridgeByteWriter::put_bytes / put_string: the length as u32, then the bytes
put_bytes(bytes) == U32(Len(bytes)) \o bytes

\* the match of bridge_header_name_token, arm by arm; names are their bytes
EncoderTable ==
    <<
       [name |-> <<104, 111, 115, 116>>, token |-> 0],   \* "host"
       [name |-> <<99, 111, 110, 110, 101, 99, 116, 105, 111, 110>>, token |-> 1],   \* "connection"
       [name |-> <<117, 115, 101, 114, 45, 97, 103, 101, 110, 116>>, token |-> 2],   \* "user-agent"
       [name |-> <<97, 99, 99, 101, 112, 116>>, token |-> 3],   \* "accept"
       [name |-> <<97, 99, 99, 101, 112, 116, 45, 101, 110, 99, 111, 100, 105, 110, 103>>, token |-> 4],   \* "accept-encoding"
       [name |-> <<97, 99, 99, 101, 112, 116, 45, 108, 97, 110, 103, 117, 97, 103, 101>>, token |-> 5],   \* "accept-language"
       [name |-> <<99, 111, 110, 116, 101, 110, 116, 45, 116, 121, 112, 101>>, token |-> 6],   \* "content-type"
       [name |-> <<99, 111, 110, 116, 101, 110, 116, 45, 108, 101, 110, 103, 116, 104>>, token |-> 7],   \* "content-length"
       [name |-> <<116, 114, 97, 110, 115, 102, 101, 114, 45, 101, 110, 99, 111, 100, 105, 110, 103>>, token |-> 8],   \* "transfer-encoding"
       [name |-> <<99, 111, 111, 107, 105, 101>>, token |-> 9],   \* "cookie"
       [name |-> <<115, 101, 116, 45, 99, 111, 111, 107, 105, 101>>, token |-> 10],   \* "set-cookie"
       [name |-> <<99, 97, 99, 104, 101, 45, 99, 111, 110, 116, 114, 111, 108>>, token |-> 11],   \* "cache-control"
       [name |-> <<112, 114, 97, 103, 109, 97>>, token |-> 12],   \* "pragma"
       [name |-> <<117, 112, 103, 114, 97, 100, 101>>, token |-> 13],   \* "upgrade"
       [name |-> <<97, 117, 116, 104, 111, 114, 105, 122, 97, 116, 105, 111, 110>>, token |-> 14],   \* "authorization"
       [name |-> <<111, 114, 105, 103, 105, 110>>, token |-> 15],   \* "origin"
       [name |-> <<114, 101, 102, 101, 114, 101, 114>>, token |-> 16],   \* "referer"
       [name |-> <<108, 111, 99, 97, 116, 105, 111, 110>>, token |-> 17],   \* "location"
       [name |-> <<115, 101, 114, 118, 101, 114>>, token |-> 18],   \* "server"
       [name |-> <<100, 97, 116, 101>>, token |-> 19],   \* "date"
       [name |-> <<120, 45, 102, 111, 114, 119, 97, 114, 100, 101, 100, 45, 102, 111, 114>>, token |-> 20],   \* "x-forwarded-for"
       [name |-> <<120, 45, 102, 111, 114, 119, 97, 114, 100, 101, 100, 45, 112, 114, 111, 116, 111>>, token |-> 21],   \* "x-forwarded-proto"
       [name |-> <<120, 45, 102, 111, 114, 119, 97, 114, 100, 101, 100, 45, 104, 111, 115, 116>>, token |-> 22],   \* "x-forwarded-host"
       [name |-> <<120, 45, 102, 111, 114, 119, 97, 114, 100, 101, 100, 45, 112, 111, 114, 116>>, token |-> 23],   \* "x-forwarded-port"
       [name |-> <<120, 45, 114, 101, 113, 117, 101, 115, 116, 45, 105, 100>>, token |-> 24],   \* "x-request-id"
       [name |-> <<115, 101, 99, 45, 119, 101, 98, 115, 111, 99, 107, 101, 116, 45, 107, 101, 121>>, token |-> 25],   \* "sec-websocket-key"
       [name |-> <<115, 101, 99, 45, 119, 101, 98, 115, 111, 99, 107, 101, 116, 45, 118, 101, 114, 115, 105, 111, 110>>, token |-> 26],   \* "sec-websocket-version"
       [name |-> <<115, 101, 99, 45, 119, 101, 98, 115, 111, 99, 107, 101, 116, 45, 112, 114, 111, 116, 111, 99, 111, 108>>, token |-> 27],   \* "sec-websocket-protocol"
       [name |-> <<115, 101, 99, 45, 119, 101, 98, 115, 111, 99, 107, 101, 116, 45, 101, 120, 116, 101, 110, 115, 105, 111, 110, 115>>, token |-> 28]    \* "sec-websocket-extensions"
    >>

\* bridge_header_name_token
bridge_header_name_token(name) ==
    IF \E i \in 1..Len(EncoderTable) : EncoderTable[i].name = name
    THEN EncoderTable[CHOOSE i \in 1..Len(EncoderTable) :
                          /\ EncoderTable[i].name = name
                          /\ \A j \in 1..(i - 1) : EncoderTable[j].name # name].token
    ELSE NoToken

\* write_bridge_header_name: what it appends to the writer
write_bridge_header_name(name) ==
    IF bridge_header_name_token(name) # NoToken
    THEN U16(bridge_header_name_token(name))
    ELSE U16(BRIDGE_HEADER_NAME_LITERAL_TOKEN) \o put_bytes(name)

\* the match of bridge_header_name_from_token_header_name, arm by arm: the
\* name of token t is DecoderTable[t + 1]
DecoderTable ==
    <<
       <<104, 111, 115, 116>>,   \* 0: "host"
       <<99, 111, 110, 110, 101, 99, 116, 105, 111, 110>>,   \* 1: "connection"
       <<117, 115, 101, 114, 45, 97, 103, 101, 110, 116>>,   \* 2: "user-agent"
       <<97, 99, 99, 101, 112, 116>>,   \* 3: "accept"
       <<97, 99, 99, 101, 112, 116, 45, 101, 110, 99, 111, 100, 105, 110, 103>>,   \* 4: "accept-encoding"
       <<97, 99, 99, 101, 112, 116, 45, 108, 97, 110, 103, 117, 97, 103, 101>>,   \* 5: "accept-language"
       <<99, 111, 110, 116, 101, 110, 116, 45, 116, 121, 112, 101>>,   \* 6: "content-type"
       <<99, 111, 110, 116, 101, 110, 116, 45, 108, 101, 110, 103, 116, 104>>,   \* 7: "content-length"
       <<116, 114, 97, 110, 115, 102, 101, 114, 45, 101, 110, 99, 111, 100, 105, 110, 103>>,   \* 8: "transfer-encoding"
       <<99, 111, 111, 107, 105, 101>>,   \* 9: "cookie"
       <<115, 101, 116, 45, 99, 111, 111, 107, 105, 101>>,   \* 10: "set-cookie"
       <<99, 97, 99, 104, 101, 45, 99, 111, 110, 116, 114, 111, 108>>,   \* 11: "cache-control"
       <<112, 114, 97, 103, 109, 97>>,   \* 12: "pragma"
       <<117, 112, 103, 114, 97, 100, 101>>,   \* 13: "upgrade"
       <<97, 117, 116, 104, 111, 114, 105, 122, 97, 116, 105, 111, 110>>,   \* 14: "authorization"
       <<111, 114, 105, 103, 105, 110>>,   \* 15: "origin"
       <<114, 101, 102, 101, 114, 101, 114>>,   \* 16: "referer"
       <<108, 111, 99, 97, 116, 105, 111, 110>>,   \* 17: "location"
       <<115, 101, 114, 118, 101, 114>>,   \* 18: "server"
       <<100, 97, 116, 101>>,   \* 19: "date"
       <<120, 45, 102, 111, 114, 119, 97, 114, 100, 101, 100, 45, 102, 111, 114>>,   \* 20: "x-forwarded-for"
       <<120, 45, 102, 111, 114, 119, 97, 114, 100, 101, 100, 45, 112, 114, 111, 116, 111>>,   \* 21: "x-forwarded-proto"
       <<120, 45, 102, 111, 114, 119, 97, 114, 100, 101, 100, 45, 104, 111, 115, 116>>,   \* 22: "x-forwarded-host"
       <<120, 45, 102, 111, 114, 119, 97, 114, 100, 101, 100, 45, 112, 111, 114, 116>>,   \* 23: "x-forwarded-port"
       <<120, 45, 114, 101, 113, 117, 101, 115, 116, 45, 105, 100>>,   \* 24: "x-request-id"
       <<115, 101, 99, 45, 119, 101, 98, 115, 111, 99, 107, 101, 116, 45, 107, 101, 121>>,   \* 25: "sec-websocket-key"
       <<115, 101, 99, 45, 119, 101, 98, 115, 111, 99, 107, 101, 116, 45, 118, 101, 114, 115, 105, 111, 110>>,   \* 26: "sec-websocket-version"
       <<115, 101, 99, 45, 119, 101, 98, 115, 111, 99, 107, 101, 116, 45, 112, 114, 111, 116, 111, 99, 111, 108>>,   \* 27: "sec-websocket-protocol"
       <<115, 101, 99, 45, 119, 101, 98, 115, 111, 99, 107, 101, 116, 45, 101, 120, 116, 101, 110, 115, 105, 111, 110, 115>>    \* 28: "sec-websocket-extensions"
    >>

\* bridge_header_name_from_token_header_name with the arms one token late
bridge_header_name_from_token_shifted(token) ==
    IF token \in 1..Len(DecoderTable) THEN DecoderTable[token] ELSE <<>>

\* bridge_header_name_from_token_header_name; <<>> stands for None
bridge_header_name_from_token_header_name(token) ==
    IF token \in 0..(Len(DecoderTable) - 1) THEN DecoderTable[token + 1] ELSE <<>>

\* the result of a read at offset `at`: Ok(value) and the new offset, or Err
Got(value, at) == [status |-> "ok", err |-> "", value |-> value, offset |-> at]
Failed(why, at) == [status |-> "err", err |-> why, value |-> <<>>, offset |-> at]
Skipped(at) == [status |-> "skip", err |-> "", value |-> <<>>, offset |-> at]

\* BridgeByteReader::get_exact(len) at offset `at`
get_exact(bytes, at, len) ==
    IF at + len > Len(bytes)
    THEN Failed("truncated bridge payload", at)
    ELSE Got(SubSeq(bytes, at + 1, at + len), at + len)

\* get_bytes that takes what is left of the payload, whatever length is declared
get_bytes_to_end(bytes, at) ==
    IF at + 4 > Len(bytes) THEN Failed("truncated bridge payload", at)
    ELSE Got(SubSeq(bytes, at + 5, Len(bytes)), Len(bytes))

\* BridgeByteReader::get_bytes at offset `at`
get_bytes(bytes, at) ==
    LET length == get_exact(bytes, at, 4) IN
        IF length.status = "err" THEN length
        ELSE IF FromU32(length.value) > Len(bytes) - length.offset
        THEN Failed("truncated bridge payload", length.offset)
        ELSE Got(SubSeq(bytes, length.offset + 1, length.offset + FromU32(length.value)),
                 length.offset + FromU32(length.value))

\* ensure_done that accepts bytes after the last field
ensure_done_ignored(bytes, at) == Got(<<>>, at)

\* BridgeByteReader::ensure_done at offset `at`
ensure_done(bytes, at) ==
    IF at = Len(bytes) THEN Got(<<>>, at)
    ELSE Failed("unexpected trailing bridge payload bytes", at)

\* the bytes a header name may contain (the token characters of HTTP)
IsHeaderChar(c) ==
    \/ c \in 48..57 \/ c \in 65..90 \/ c \in 97..122
    \/ c \in {33, 35, 36, 37, 38, 39, 42, 43, 45, 46, 94, 95, 96, 124, 126}

\* HeaderName::from_bytes(name).ok(): the name in lower case; <<>> stands for None
HeaderNameFromBytes(name) ==
    IF name = <<>> \/ \E i \in 1..Len(name) : ~IsHeaderChar(name[i])
    THEN <<>>
    ELSE [i \in 1..Len(name) |-> IF name[i] \in 65..90 THEN name[i] + 32 ELSE name[i]]

\* the literal form of decode_bridge_response_header_name
LiteralName(bytes, at) ==
    LET name == get_bytes(bytes, at) IN
        IF name.status = "err" THEN name
        ELSE IF HeaderNameFromBytes(name.value) = <<>> THEN Skipped(name.offset)
        ELSE Got(HeaderNameFromBytes(name.value), name.offset)

\* decode_bridge_response_header_name at offset `at`: Ok(Some(name)), Ok(None)
\* ("skip") or Err
decode_bridge_response_header_name(bytes, at, tokenized) ==
    IF ~tokenized THEN LiteralName(bytes, at)
    ELSE LET token == get_exact(bytes, at, 2) IN
        IF token.status = "err" THEN token
        ELSE IF FromU16(token.value) = BRIDGE_HEADER_NAME_LITERAL_TOKEN
        THEN LiteralName(bytes, token.offset)
        ELSE IF bridge_header_name_from_token_header_name(FromU16(token.value)) = <<>>
        THEN Failed("invalid bridge header name token", token.offset)
        ELSE Got(bridge_header_name_from_token_header_name(FromU16(token.value)),
                 token.offset)

\* header names of a request that the table does not hold:
\* "etag", "x-a", "hos", "hosts", "x"
OtherNames ==
    {<<101, 116, 97, 103>>, <<120, 45, 97>>, <<104, 111, 115>>, <<104, 111, 115, 116, 115>>, <<120>>}

\* the names of the table
TableNames == {EncoderTable[i].name : i \in 1..Len(EncoderTable)}

\* what a peer can put where a header name is expected: a token in or next to
\* the table, a literal (also in upper case "ETag", with a space "h ", empty),
\* a literal cut short, a single byte
NameWires ==
    {U16(t) : t \in 0..30 \cup {65534}}
    \cup {U16(BRIDGE_HEADER_NAME_LITERAL_TOKEN) \o put_bytes(n) :
            n \in OtherNames \cup {<<69, 84, 97, 103>>, <<104, 32>>, <<>>}}
    \cup {put_bytes(n) : n \in OtherNames}
    \cup {U16(BRIDGE_HEADER_NAME_LITERAL_TOKEN) \o U32(5) \o <<120>>, <<0>>}

\* a request header name is about to be written
NameStart ==
    /\ codecOp = "name"
    /\ codecIn \in TableNames \cup OtherNames
    /\ codecArg = 1
    /\ wire = <<>>

\* bytes from a peer are about to be decoded as a header name, of a tokenized
\* frame (1) or of a legacy frame (0)
TokenStart ==
    /\ codecOp = "token"
    /\ codecIn = <<>>
    /\ codecArg \in {0, 1}
    /\ wire \in NameWires

\* everything but the codec
CodecFrame ==
    UNCHANGED <<poolVars, taskVars, exVars, regVars, lockVars, tunVars, serveVars>>

\* write_bridge_header_name(writer, name)
WriteHeaderName ==
    /\ codecOp = "name"
    /\ codecPc = "start"
    /\ wire' = write_bridge_header_name(codecIn)
    /\ codecPc' = "written"
    /\ UNCHANGED <<codecOp, codecIn, codecArg, codecOut, buffers, index, offset, header,
                   payload, read>>

\* decode_bridge_response_header_name(reader, tokenized) on the bytes written,
\* or on the bytes of the peer
ReadHeaderName ==
    /\ \/ codecOp = "name" /\ codecPc = "written"
       \/ codecOp = "token" /\ codecPc = "start"
    /\ codecOut' = decode_bridge_response_header_name(wire, 0, codecArg = 1)
    /\ codecPc' = "done"
    /\ UNCHANGED <<codecOp, codecIn, codecArg, buffers, index, offset, wire, header,
                   payload, read>>

\* ---- frames and payloads -------------------------------------------------------

BRIDGE_COALESCE_WRITE_THRESHOLD_BYTES == 7
BRIDGE_PROTOCOL_VERSION == 1
BRIDGE_PROTOCOL_VERSION_LEGACY == 1
MaxWritten == 3
MaxPayloadLen == 9
MaxWireChunkLen == 3
MaxSlices == 4
MaxHeaders == 3
MaxSliceLen == 2

is_supported_bridge_protocol_version(version) ==
    version = BRIDGE_PROTOCOL_VERSION \/ version = BRIDGE_PROTOCOL_VERSION_LEGACY

\* the version and frame type every payload decoder reads first; `types` are
\* the frame types the decoder takes
decode_head(bytes, types, what) ==
    LET version == get_exact(bytes, 0, 1) IN
        IF version.status = "err" THEN version
        ELSE IF ~is_supported_bridge_protocol_version(version.value[1])
        THEN Failed("unsupported bridge protocol version", version.offset)
        ELSE LET frame_type == get_exact(bytes, version.offset, 1) IN
            IF frame_type.status = "err" THEN frame_type
            ELSE IF frame_type.value[1] \notin types
            THEN Failed(what, frame_type.offset)
            ELSE frame_type

\* HeaderValue::from_bytes(value) is Ok
IsHeaderValue(value) ==
    \A i \in 1..Len(value) : value[i] = 9 \/ (value[i] >= 32 /\ value[i] # 127)

\* headers.push((header_name, header_value)), unless the name or the value was
\* not valid (`continue`)
push_header(header_name, value, rest) ==
    IF rest.status = "err" THEN rest
    ELSE IF header_name.status = "skip" \/ ~IsHeaderValue(value.value) THEN rest
    ELSE Got(<<<<header_name.value, value.value>>>> \o rest.value, rest.offset)

\* the header loop of decode_bridge_response / decode_bridge_response_start:
\* the name, then the value, then the headers that follow
RECURSIVE decode_headers(_, _, _, _)
RECURSIVE decode_header_value(_, _, _, _)
RECURSIVE decode_header_rest(_, _, _, _, _)
decode_header_rest(bytes, header_name, value, count, tokenized) ==
    IF value.status = "err" THEN value
    ELSE push_header(header_name, value,
                     decode_headers(bytes, value.offset, count - 1, tokenized))

decode_header_value(bytes, header_name, count, tokenized) ==
    IF header_name.status = "err" THEN header_name
    ELSE decode_header_rest(bytes, header_name, get_bytes(bytes, header_name.offset),
                            count, tokenized)

decode_headers(bytes, at, count, tokenized) ==
    IF count = 0 THEN Got(<<>>, at)
    ELSE decode_header_value(bytes, decode_bridge_response_header_name(bytes, at, tokenized),
                             count, tokenized)

\* status, header count and headers of a response or response-start payload
decode_status_headers(bytes, head) ==
    LET tokenized == head.value[1] \in {BRIDGE_RESPONSE_FRAME_TYPE_TOKENIZED,
                                        BRIDGE_RESPONSE_START_FRAME_TYPE_TOKENIZED}
        st == get_exact(bytes, head.offset, 2)
    IN  IF st.status = "err" THEN st
        ELSE LET header_count == get_exact(bytes, st.offset, 4) IN
            IF header_count.status = "err" THEN header_count
            ELSE LET headers == decode_headers(bytes, header_count.offset,
                                               FromU32(header_count.value), tokenized)
                 IN IF headers.status = "err" THEN headers
                    ELSE Got(<<FromU16(st.value), headers.value>>, headers.offset)

\* decode_bridge_response: Ok(<<status, headers, body>>)
decode_bridge_response(bytes) ==
    LET head == decode_head(bytes, {BRIDGE_RESPONSE_FRAME_TYPE,
                                    BRIDGE_RESPONSE_FRAME_TYPE_TOKENIZED},
                            "invalid bridge response frame type")
    IN  IF head.status = "err" THEN head
        ELSE LET sh == decode_status_headers(bytes, head) IN
            IF sh.status = "err" THEN sh
            ELSE LET response_body == get_bytes(bytes, sh.offset) IN
                IF response_body.status = "err" THEN response_body
                ELSE IF ensure_done(bytes, response_body.offset).status = "err"
                THEN ensure_done(bytes, response_body.offset)
                ELSE Got(sh.value \o <<response_body.value>>, response_body.offset)

\* decode_bridge_response_start: Ok(<<status, headers>>)
decode_bridge_response_start(bytes) ==
    LET head == decode_head(bytes, {BRIDGE_RESPONSE_START_FRAME_TYPE,
                                    BRIDGE_RESPONSE_START_FRAME_TYPE_TOKENIZED},
                            "invalid bridge response start frame type")
    IN  IF head.status = "err" THEN head
        ELSE LET sh == decode_status_headers(bytes, head) IN
            IF sh.status = "err" THEN sh
            ELSE IF ensure_done(bytes, sh.offset).status = "err"
            THEN ensure_done(bytes, sh.offset)
            ELSE sh

\* decode_bridge_response_chunk / decode_bridge_tunnel_chunk: Ok(chunk)
decode_chunk(bytes, frame_type, what) ==
    LET head == decode_head(bytes, {frame_type}, what) IN
        IF head.status = "err" THEN head
        ELSE LET chunk_bytes == get_bytes(bytes, head.offset) IN
            IF chunk_bytes.status = "err" THEN chunk_bytes
            ELSE IF ensure_done(bytes, chunk_bytes.offset).status = "err"
            THEN ensure_done(bytes, chunk_bytes.offset)
            ELSE chunk_bytes

\* decode_bridge_response_end / decode_bridge_tunnel_close: Ok(())
decode_end(bytes, frame_type, what) ==
    LET head == decode_head(bytes, {frame_type}, what) IN
        IF head.status = "err" THEN head
        ELSE ensure_done(bytes, head.offset)

\* the six payload decoders, by the frame type they are for
Decoders == {BRIDGE_RESPONSE_FRAME_TYPE, BRIDGE_RESPONSE_START_FRAME_TYPE,
             BRIDGE_RESPONSE_CHUNK_FRAME_TYPE, BRIDGE_RESPONSE_END_FRAME_TYPE,
             BRIDGE_TUNNEL_CHUNK_FRAME_TYPE, BRIDGE_TUNNEL_CLOSE_FRAME_TYPE}

decode_payload(decoder, bytes) ==
    IF decoder = BRIDGE_RESPONSE_FRAME_TYPE THEN decode_bridge_response(bytes)
    ELSE IF decoder = BRIDGE_RESPONSE_START_FRAME_TYPE THEN decode_bridge_response_start(bytes)
    ELSE IF decoder = BRIDGE_RESPONSE_CHUNK_FRAME_TYPE
    THEN decode_chunk(bytes, decoder, "invalid bridge response chunk frame type")
    ELSE IF decoder = BRIDGE_RESPONSE_END_FRAME_TYPE
    THEN decode_end(bytes, decoder, "invalid bridge response end frame type")
    ELSE IF decoder = BRIDGE_TUNNEL_CHUNK_FRAME_TYPE
    THEN decode_chunk(bytes, decoder, "invalid bridge tunnel chunk frame type")
    ELSE decode_end(bytes, decoder, "invalid bridge tunnel close frame type")

\* the headers a peer's payload carries: none, one with a table token and one
\* with a literal name ("x-a"), each with the value "v"
PeerHeaders(tokenized) ==
    {U32(0),
     U32(1) \o (IF tokenized THEN U16(6) ELSE put_bytes(DecoderTable[7])) \o put_bytes(<<118>>),
     U32(2) \o (IF tokenized THEN U16(0) ELSE put_bytes(DecoderTable[1])) \o put_bytes(<<118>>)
            \o (IF tokenized THEN U16(BRIDGE_HEADER_NAME_LITERAL_TOKEN) ELSE <<>>)
            \o put_bytes(<<120, 45, 97>>) \o put_bytes(<<>>)}

\* well-formed payloads of the frame types the decoders are for
PeerPayloads(decoder) ==
    IF decoder = BRIDGE_RESPONSE_FRAME_TYPE
    THEN {<<BRIDGE_PROTOCOL_VERSION, ty>> \o U16(200) \o hs \o put_bytes(Range(1, n)) :
            ty \in {BRIDGE_RESPONSE_FRAME_TYPE}, hs \in PeerHeaders(FALSE), n \in 0..1}
         \cup {<<BRIDGE_PROTOCOL_VERSION, ty>> \o U16(200) \o hs \o put_bytes(Range(1, n)) :
            ty \in {BRIDGE_RESPONSE_FRAME_TYPE_TOKENIZED}, hs \in PeerHeaders(TRUE), n \in 0..1}
    ELSE IF decoder = BRIDGE_RESPONSE_START_FRAME_TYPE
    THEN {<<BRIDGE_PROTOCOL_VERSION, ty>> \o U16(101) \o hs :
            ty \in {BRIDGE_RESPONSE_START_FRAME_TYPE}, hs \in PeerHeaders(FALSE)}
         \cup {<<BRIDGE_PROTOCOL_VERSION, ty>> \o U16(101) \o hs :
            ty \in {BRIDGE_RESPONSE_START_FRAME_TYPE_TOKENIZED}, hs \in PeerHeaders(TRUE)}
    ELSE IF decoder \in {BRIDGE_RESPONSE_CHUNK_FRAME_TYPE, BRIDGE_TUNNEL_CHUNK_FRAME_TYPE}
    THEN {<<BRIDGE_PROTOCOL_VERSION, decoder>> \o put_bytes(Range(1, n)) : n \in 0..MaxWireChunkLen}
    ELSE {<<BRIDGE_PROTOCOL_VERSION, decoder>>}

\* bytes after the last field
Trailing == {<<>>, <<0>>, <<0, 0, 0, 0>>, <<1, 8>>}

\* a payload is about to be written as a frame
FrameStart ==
    /\ codecOp = "frame"
    /\ codecIn \in {Range(1, n) : n \in 0..MaxPayloadLen}
    /\ codecArg = 0
    /\ wire = <<>>

\* a chunk is about to be written as a request-chunk or tunnel-chunk frame
ChunkFrameStart ==
    /\ codecOp = "chunk_frame"
    /\ codecIn \in {Range(1, n) : n \in 0..MaxWireChunkLen}
    /\ codecArg \in {BRIDGE_REQUEST_CHUNK_FRAME_TYPE, BRIDGE_TUNNEL_CHUNK_FRAME_TYPE}
    /\ wire = <<>>

\* a payload from the peer is about to be decoded by the decoder codecArg:
\* codecIn is a well-formed payload (of that decoder's type or of another
\* one), wire is what arrived: it, it with bytes after its last field, or it
\* without its last byte
DecodeStart ==
    /\ codecOp = "decode"
    /\ codecArg \in Decoders
    /\ \E made \in Decoders :
          /\ made # codecArg => made \in {BRIDGE_RESPONSE_END_FRAME_TYPE,
                                          BRIDGE_TUNNEL_CHUNK_FRAME_TYPE}
          /\ codecIn \in PeerPayloads(made)
    /\ wire \in {codecIn \o x : x \in Trailing} \cup {Front(codecIn)}

\* write_all(&out): header and payload in one buffer
WriteCoalesced(bytes) ==
    /\ wire' = wire \o bytes
    /\ codecOut' = Got(<<>>, 0)
    /\ codecPc' = "done"
    /\ UNCHANGED <<buffers, index, offset>>

\* write_all_vectored(socket, slices) is entered
WriteVectored(slices) ==
    /\ buffers' = slices
    /\ index' = 0
    /\ offset' = 0
    /\ codecPc' = "vectored"
    /\ UNCHANGED <<wire, codecOut>>

\* Err before anything is written
WriteRejected(why) ==
    /\ codecOut' = Failed(why, 0)
    /\ codecPc' = "done"
    /\ UNCHANGED <<wire, buffers, index, offset>>

\* write_bridge_frame(socket, payload)
WriteBridgeFrame ==
    /\ codecOp = "frame"
    /\ codecPc = "start"
    /\ IF Len(codecIn) > MAX_BRIDGE_FRAME_BYTES
       THEN WriteRejected("bridge frame too large")
       ELSE IF codecIn = <<>>
       THEN WriteCoalesced(U32(Len(codecIn)))
       ELSE IF Len(codecIn) <= BRIDGE_COALESCE_WRITE_THRESHOLD_BYTES
       THEN WriteCoalesced(U32(Len(codecIn)) \o codecIn)
       ELSE WriteVectored(<<U32(Len(codecIn)), codecIn>>)
    /\ UNCHANGED <<codecOp, codecIn, codecArg, header, payload, read>>

\* write_bridge_chunk_frame_with_type: payload_len
ChunkFrameLen(piece) == 6 + Len(piece)

\* write_bridge_chunk_frame_with_type(socket, frame_type, chunk)
WriteBridgeChunkFrame ==
    /\ codecOp = "chunk_frame"
    /\ codecPc = "start"
    /\ LET payload_len == ChunkFrameLen(codecIn)
           prefix == <<BRIDGE_PROTOCOL_VERSION, codecArg>> \o U32(Len(codecIn))
       IN IF payload_len > MAX_BRIDGE_FRAME_BYTES
          THEN WriteRejected("bridge frame too large")
          ELSE IF payload_len <= BRIDGE_COALESCE_WRITE_THRESHOLD_BYTES
          THEN WriteCoalesced(U32(payload_len) \o prefix \o codecIn)
          ELSE IF codecIn = <<>>
          THEN WriteVectored(<<U32(payload_len), prefix>>)
          ELSE WriteVectored(<<U32(payload_len), prefix, codecIn>>)
    /\ UNCHANGED <<codecOp, codecIn, codecArg, header, payload, read>>

\* write_all_vectored: slices that are written up are stepped over
RECURSIVE SkipWritten(_, _, _)
SkipWritten(bufs, i, off) ==
    IF i < Len(bufs) /\ off = Len(bufs[i + 1]) THEN SkipWritten(bufs, i + 1, 0)
    ELSE <<i, off>>

\* write_all_vectored counting the written bytes off the current slice only
AdvanceWithinSlice(bufs, i, off, remaining) == <<i, off + remaining>>

\* write_all_vectored: `remaining` written bytes are counted off the slices
RECURSIVE Advance(_, _, _, _)
Advance(bufs, i, off, remaining) ==
    IF i < Len(bufs) /\ remaining > 0
    THEN IF remaining < Len(bufs[i + 1]) - off
         THEN <<i, off + remaining>>
         ELSE Advance(bufs, i + 1, 0, remaining - (Len(bufs[i + 1]) - off))
    ELSE <<i, off>>

\* the bytes of the slices from slice i, offset off
RECURSIVE Unwritten(_, _, _)
Unwritten(bufs, i, off) ==
    IF i >= Len(bufs) THEN <<>>
    ELSE Drop(bufs[i + 1], off) \o Unwritten(bufs, i + 1, 0)

\* the sum of the first n lengths
RECURSIVE SumTo(_, _)
SumTo(lens, n) == IF n = 0 THEN 0 ELSE SumTo(lens, n - 1) + lens[n]

\* the ways to hand `bytes` to write_all_vectored: up to MaxSlices slices of up
\* to MaxSliceLen bytes, empty ones among them
SlicesOf(bytes) ==
    {[i \in 1..Len(lens) |-> SubSeq(bytes, SumTo(lens, i - 1) + 1, SumTo(lens, i))] :
        lens \in {l \in UNION {[1..k -> 0..MaxSliceLen] : k \in 0..MaxSlices} :
                     SumTo(l, Len(l)) = Len(bytes)}}

\* bytes are about to be written as slices
VectoredStart ==
    /\ codecOp = "vectored"
    /\ codecIn \in {Range(1, n) : n \in 0..(MaxSlices * MaxSliceLen)}
    /\ codecArg = 0
    /\ wire = <<>>

\* write_all_vectored(socket, buffers) is called with some slices of the bytes
WriteAllVectoredCall ==
    /\ codecOp = "vectored"
    /\ codecPc = "start"
    /\ \E slices \in SlicesOf(codecIn) : WriteVectored(slices)
    /\ UNCHANGED <<codecOp, codecIn, codecArg, header, payload, read>>

\* write_all_vectored: one turn of its loop, with one socket.write_vectored that
\* takes `written` bytes of the slices it is given
VectoredWriteStep ==
    /\ codecPc = "vectored"
    /\ LET at == SkipWritten(buffers, index, offset) IN
          IF at[1] >= Len(buffers)
          THEN /\ index' = at[1]
               /\ offset' = at[2]
               /\ codecOut' = Got(<<>>, 0)
               /\ codecPc' = "done"
               /\ UNCHANGED wire
          ELSE \E written \in 0..MaxWritten :
                  /\ written <= Len(Unwritten(buffers, at[1], at[2]))
                  /\ IF written = 0
                     THEN /\ codecOut' = Failed(IF codecOp = "vectored"
                                                 THEN "failed to write bridge frame bytes"
                                                 ELSE "write frame payload failed", 0)
                          /\ codecPc' = "done"
                          /\ index' = at[1]
                          /\ offset' = at[2]
                          /\ UNCHANGED wire
                     ELSE /\ wire' = wire \o Take(Unwritten(buffers, at[1], at[2]), written)
                          /\ index' = Advance(buffers, at[1], at[2], written)[1]
                          /\ offset' = Advance(buffers, at[1], at[2], written)[2]
                          /\ UNCHANGED <<codecOut, codecPc>>
    /\ UNCHANGED <<codecOp, codecIn, codecArg, buffers, header, payload, read>>

\* the chunk lengths a peer writes in front of a chunk: small ones, 256, 2^24
\* and lengths with the top bit set
ChunkLenFields ==
    {U32(k) : k \in 0..(MaxWireChunkLen + 1)}
    \cup {<<0, 0, 1, 0>>, <<1, 0, 0, 0>>, <<128, 0, 0, 0>>, <<255, 255, 255, 255>>}

\* a chunk payload from the peer is about to be decoded by a chunk decoder:
\* codecIn is the chunk, wire the payload with some chunk length in front of it
ChunkDecodeStart ==
    /\ codecOp = "chunk_decode"
    /\ codecArg \in {BRIDGE_RESPONSE_CHUNK_FRAME_TYPE, BRIDGE_TUNNEL_CHUNK_FRAME_TYPE}
    /\ codecIn \in {Range(1, n) : n \in 0..MaxWireChunkLen}
    /\ wire \in {<<BRIDGE_PROTOCOL_VERSION, codecArg>> \o field \o codecIn :
                    field \in ChunkLenFields}

\* one of the six payload decoders is applied to the payload that arrived
DecodePayload ==
    /\ codecOp \in {"decode", "chunk_decode"}
    /\ codecPc = "start"
    /\ codecOut' = decode_payload(codecArg, wire)
    /\ codecPc' = "done"
    /\ UNCHANGED <<codecOp, codecIn, codecArg, buffers, index, offset, wire, header,
                   payload, read>>

\* ---- the request encoder -------------------------------------------------------

\* HeaderValue::to_str is Ok: visible ASCII and tab
IsText(value) ==
    \A i \in 1..Len(value) : value[i] = 9 \/ (value[i] >= 32 /\ value[i] < 127)

\* the entries encode_bridge_request_headers writes for the headers from the
\* n-th on: name and value of every header whose value is text
RECURSIVE HeaderEntries(_, _)
HeaderEntries(headers, n) ==
    IF n > Len(headers) THEN <<>>
    ELSE IF ~IsText(headers[n][2]) THEN HeaderEntries(headers, n + 1)
    ELSE write_bridge_header_name(headers[n][1]) \o put_bytes(headers[n][2])
            \o HeaderEntries(headers, n + 1)

\* `count` of encode_bridge_request_headers taken from all headers
HeaderCountAll(headers) == Len(headers)

\* `count` of encode_bridge_request_headers after its loop
HeaderCount(headers) == Len(SelectSeq(headers, LAMBDA h : IsText(h[2])))

\* BridgeByteWriter::patch_u32(pos, value)
patch_u32(bytes, pos, value) ==
    [i \in 1..Len(bytes) |-> IF i \in (pos + 1)..(pos + 4) THEN U32(value)[i - pos]
                             ELSE bytes[i]]

\* encode_bridge_request_headers on a writer that holds `written`
encode_bridge_request_headers(written, headers) ==
    IF headers = <<>> THEN written \o U32(0)
    ELSE patch_u32(written \o U32(0) \o HeaderEntries(headers, 1), Len(written),
                   HeaderCount(headers))

\* the fields in front of the headers: version, type, method, scheme,
\* authority, path, query, protocol
RequestHead(frame_type, request) ==
    <<BRIDGE_PROTOCOL_VERSION, frame_type>>
        \o put_bytes(request.method) \o put_bytes(request.scheme)
        \o put_bytes(request.authority) \o put_bytes(request.path)
        \o put_bytes(request.query) \o put_bytes(request.protocol)

\* encode_bridge_request_start
encode_bridge_request_start(request) ==
    encode_bridge_request_headers(
        RequestHead(BRIDGE_REQUEST_START_FRAME_TYPE_TOKENIZED, request), request.headers)

\* encode_bridge_request
encode_bridge_request(request, body_bytes) ==
    encode_bridge_request_headers(
        RequestHead(BRIDGE_REQUEST_FRAME_TYPE_TOKENIZED, request), request.headers)
        \o put_bytes(body_bytes)

\* header names and values of a request: "host" and "set-cookie" of the table
\* and "x-a"; "v", the empty value and the byte 0xE9, which is no text
RequestHeaderPairs ==
    {<<n, v>> : n \in {DecoderTable[1], DecoderTable[11], <<120, 45, 97>>},
               v \in {<<118>>, <<>>, <<233>>}}

\* GET http://h/p?q HTTP/1.1 with up to MaxHeaders headers
Requests ==
    {[method |-> <<71, 69, 84>>, scheme |-> <<104, 116, 116, 112>>, authority |-> <<104>>,
      path |-> <<47, 112>>, query |-> <<113>>, protocol |-> <<49, 46, 49>>, headers |-> hs] :
        hs \in UNION {[1..k -> RequestHeaderPairs] : k \in 0..MaxHeaders}}

\* a request is about to be encoded, as a single frame with a body of codecArg
\* bytes or, with codecArg = NoToken, as a start frame
RequestStart ==
    /\ codecOp = "request"
    /\ codecIn \in Requests
    /\ codecArg \in {NoToken, 0, 1}
    /\ wire = <<>>

\* encode_bridge_request_start(request) / encode_bridge_request(request, body)
EncodeRequest ==
    /\ codecOp = "request"
    /\ codecPc = "start"
    /\ wire' = IF codecArg = NoToken THEN encode_bridge_request_start(codecIn)
               ELSE encode_bridge_request(codecIn, Range(1, codecArg))
    /\ codecOut' = Got(<<>>, 0)
    /\ codecPc' = "done"
    /\ UNCHANGED <<codecOp, codecIn, codecArg, buffers, index, offset, header, payload,
                   read>>

\* ---- the HTTP response of a bridge result --------------------------------------

BAD_GATEWAY == 502

\* StatusCode::from_u16(status) with Err replaced by StatusCode::BAD_GATEWAY
StatusFromU16(n) == IF n \in 100..999 THEN n ELSE BAD_GATEWAY

\* the values a HeaderMap holds for a name, in order; the map is its names in
\* the order they came in, each with its values
ValuesOf(map, name) ==
    IF \E i \in 1..Len(map) : map[i].name = name
    THEN map[CHOOSE i \in 1..Len(map) : map[i].name = name].values
    ELSE <<>>

\* HeaderMap::insert(name, value): the value replaces the ones of the name
HeaderMapInsert(map, name, value) ==
    IF \E i \in 1..Len(map) : map[i].name = name
    THEN [i \in 1..Len(map) |-> IF map[i].name = name
                                THEN [name |-> name, values |-> <<value>>] ELSE map[i]]
    ELSE Append(map, [name |-> name, values |-> <<value>>])

\* HeaderMap::append(name, value): the value is added behind the ones of the name
HeaderMapAppend(map, name, value) ==
    IF \E i \in 1..Len(map) : map[i].name = name
    THEN [i \in 1..Len(map) |-> IF map[i].name = name
                                THEN [name |-> name, values |-> Append(map[i].values, value)]
                                ELSE map[i]]
    ELSE Append(map, [name |-> name, values |-> <<value>>])

\* for (header_name, header_value) in headers { response.headers_mut().append(..) }
\* over the first n pairs
RECURSIVE AppendHeaders(_, _)
AppendHeaders(headers, n) ==
    IF n = 0 THEN <<>>
    ELSE HeaderMapAppend(AppendHeaders(headers, n - 1), headers[n][1], headers[n][2])

\* the statuses a bridge result carries: valid ones and ones around the limits
\* of StatusCode::from_u16
BridgeStatuses == {0, 99, 100, SWITCHING_PROTOCOLS, 200, BAD_GATEWAY, 999, 1000, 65535}

\* the header pairs of a bridge result: "set-cookie" and "x-a" with two values
ResponseHeaderPairs ==
    {<<n, v>> : n \in {DecoderTable[11], <<120, 45, 97>>}, v \in {<<118>>, <<119>>}}

\* the places that make the response: proxy_request of a call_bridge result,
\* call_direct_bridge_request of a single-frame response and of a response-start
Builders == {"proxy_request", "direct_single", "direct_start"}

\* a bridge result is about to be turned into the HTTP response; codecArg = 1
\* when the request asked for a WebSocket upgrade
RespondStart ==
    /\ codecOp \in Builders
    /\ codecIn \in {[status |-> st, headers |-> hs] :
                       st \in BridgeStatuses,
                       hs \in UNION {[1..k -> ResponseHeaderPairs] : k \in 0..MaxHeaders}}
    /\ codecArg \in {0, 1}
    /\ wire = <<>>

\* the response is assembled: status, then the headers one by one; the direct
\* bridge refuses a single-frame 101 that answers an upgrade request
BuildResponse ==
    /\ codecOp \in Builders
    /\ codecPc = "start"
    /\ codecOut' =
          IF /\ codecOp = "direct_single"
             /\ codecArg = 1
             /\ StatusFromU16(codecIn.status) = SWITCHING_PROTOCOLS
          THEN Failed("websocket upgrade failed: direct callback returned single-frame response", 0)
          ELSE Got([status |-> StatusFromU16(codecIn.status),
                    headers |-> AppendHeaders(codecIn.headers, Len(codecIn.headers))], 0)
    /\ codecPc' = "done"
    /\ UNCHANGED <<codecOp, codecIn, codecArg, buffers, index, offset, wire, header,
                   payload, read>>

\* ---- the frame reader ----------------------------------------------------------

StaleByte == 170
StaleLen == 5

\* the lengths a peer declares: small ones, the limit, one more, and large ones
DeclaredLens == {0, 1, 2, 3, MAX_BRIDGE_FRAME_BYTES, MAX_BRIDGE_FRAME_BYTES + 1,
                 16777216, MaxLength}

\* what the stream holds until it ends: nothing, a length cut short, a length
\* with none, some or all of the bytes it declares, and bytes of a next frame
ReadStreams ==
    {Take(U32(len), k) : len \in DeclaredLens, k \in 0..3}
    \cup {U32(len) \o Range(1, k) : len \in DeclaredLens, k \in 0..(MAX_BRIDGE_FRAME_BYTES + 1)}

\* a frame is about to be read into the caller's buffer, which is new or holds
\* the payload of an earlier frame
ReadStart ==
    /\ codecOp = "read"
    /\ wire \in ReadStreams
    /\ codecIn = wire
    /\ codecArg \in {0, StaleLen}
    /\ payload = [i \in 1..codecArg |-> StaleByte]

\* Vec::resize that never truncates
ResizeGrowOnly(buf, len) ==
    IF len <= Len(buf) THEN buf ELSE buf \o [i \in 1..(len - Len(buf)) |-> 0]

\* payload.resize(payload_len, 0)
Resize(buf, len) ==
    IF len <= Len(buf) THEN Take(buf, len) ELSE buf \o [i \in 1..(len - Len(buf)) |-> 0]

\* the reader returns
ReadReturns(out) ==
    /\ codecOut' = out
    /\ codecPc' = "done"

\* read_bridge_frame_reuse: one socket.read of the header loop; the read that
\* completes the header goes on to the length check and payload.resize
ReadHeaderStep ==
    /\ codecOp = "read"
    /\ codecPc = "start"
    /\ IF wire = <<>>
       THEN /\ IF header = <<>>
               THEN ReadReturns([NoOutput EXCEPT !.status = "no_frame"])
               ELSE ReadReturns(Failed("bridge closed connection while reading frame header", 0))
            /\ UNCHANGED <<wire, header, payload, read>>
       ELSE \E n \in 1..(4 - Len(header)) :
               /\ n <= Len(wire)
               /\ header' = header \o Take(wire, n)
               /\ wire' = Drop(wire, n)
               /\ read' = 0
               /\ IF Len(header') < 4
                  THEN UNCHANGED <<codecOut, codecPc, payload>>
                  ELSE IF FromU32(header') > MAX_BRIDGE_FRAME_BYTES
                  THEN ReadReturns(Failed("bridge frame too large", 0)) /\ UNCHANGED payload
                  ELSE /\ payload' = Resize(payload, FromU32(header'))
                       /\ IF FromU32(header') = 0
                          THEN ReadReturns(Got(payload', 0))
                          ELSE codecPc' = "payload" /\ UNCHANGED codecOut
    /\ UNCHANGED <<codecOp, codecIn, codecArg, buffers, index, offset>>

\* read_bridge_frame_reuse: one socket.read of the payload loop
ReadPayloadStep ==
    /\ codecOp = "read"
    /\ codecPc = "payload"
    /\ IF wire = <<>>
       THEN /\ ReadReturns(Failed("bridge stream ended before response payload", 0))
            /\ UNCHANGED <<wire, payload, read>>
       ELSE \E n \in 1..(Len(payload) - read) :
               /\ n <= Len(wire)
               /\ payload' = [i \in 1..Len(payload) |->
                                 IF i \in (read + 1)..(read + n) THEN wire[i - read]
                                 ELSE payload[i]]
               /\ wire' = Drop(wire, n)
               /\ read' = read + n
               /\ IF read' < Len(payload)
                  THEN UNCHANGED <<codecOut, codecPc>>
                  ELSE ReadReturns(Got(payload', 0))
    /\ UNCHANGED <<codecOp, codecIn, codecArg, buffers, index, offset, header>>

\* either loop: socket.read fails
ReadIoError ==
    /\ codecOp = "read"
    /\ codecPc \in {"start", "payload"}
    /\ ReadReturns(Failed(IF codecPc = "start" THEN "read frame header failed"
                          ELSE "read frame payload failed", 0))
    /\ UNCHANGED <<codecOp, codecIn, codecArg, buffers, index, offset, wire, header,
                   payload, read>>

\* one operation of the codec is about to be applied to one input
CodecInit ==
    /\ PoolNew /\ TasksIdle /\ NoExchange /\ RegistryIdle /\ LockIdle /\ TunnelIdle
    /\ ServeIdle
    /\ codecPc = "start"
    /\ codecOut = NoOutput
    /\ buffers = <<>>
    /\ index = 0
    /\ offset = 0
    /\ header = <<>>
    /\ read = 0
    /\ \/ NameStart /\ payload = <<>>
       \/ TokenStart /\ payload = <<>>
       \/ FrameStart /\ payload = <<>>
       \/ ChunkFrameStart /\ payload = <<>>
       \/ DecodeStart /\ payload = <<>>
       \/ VectoredStart /\ payload = <<>>
       \/ ChunkDecodeStart /\ payload = <<>>
       \/ RequestStart /\ payload = <<>>
       \/ RespondStart /\ payload = <<>>
       \/ ReadStart

CodecNext ==
    \/ WriteHeaderName /\ CodecFrame
    \/ ReadHeaderName /\ CodecFrame
    \/ WriteBridgeFrame /\ CodecFrame
    \/ WriteBridgeChunkFrame /\ CodecFrame
    \/ WriteAllVectoredCall /\ CodecFrame
    \/ VectoredWriteStep /\ CodecFrame
    \/ DecodePayload /\ CodecFrame
    \/ EncodeRequest /\ CodecFrame
    \/ BuildResponse /\ CodecFrame
    \/ ReadHeaderStep /\ CodecFrame
    \/ ReadPayloadStep /\ CodecFrame
    \/ ReadIoError /\ CodecFrame

SpecCodec == CodecInit /\ [][CodecNext]_vars

\* ---- claims about the wire codec -----------------------------------------------

\* the token a tokenized wire starts with
WireToken == FromU16(Take(wire, 2))

\* C28: every name of the 29-entry token table is written as its token and
\* decodes to the identical name, the encoder's and the decoder's tables agree
\* on every token 0..28, a name outside the table is written as 0xFFFF
\* followed by the literal name and decodes to that name, and a token other
\* than 0..28 and 0xFFFF is rejected as an invalid header name token.
C28_HeaderNameRoundTrip ==
    /\ Len(EncoderTable) = 29
    /\ \A i \in 1..Len(EncoderTable) :
          /\ EncoderTable[i].token \in 0..28
          /\ bridge_header_name_from_token_header_name(EncoderTable[i].token)
                = EncoderTable[i].name
    /\ \A t \in 0..28 :
          bridge_header_name_token(bridge_header_name_from_token_header_name(t)) = t
    /\ (codecOp = "name" /\ codecPc \in {"written", "done"}) =>
          IF codecIn \in TableNames
          THEN \E t \in 0..28 : wire = U16(t) /\ DecoderTable[t + 1] = codecIn
          ELSE wire = <<255, 255>> \o U32(Len(codecIn)) \o codecIn
    /\ (codecOp = "name" /\ codecPc = "done") => codecOut = Got(codecIn, Len(wire))
    /\ (codecOp = "token" /\ codecArg = 1 /\ codecPc = "done" /\ Len(wire) >= 2) =>
          /\ WireToken \in 0..28 => codecOut = Got(DecoderTable[WireToken + 1], 2)
          /\ WireToken \notin (0..28) \cup {BRIDGE_HEADER_NAME_LITERAL_TOKEN} =>
                /\ codecOut.status = "err"
                /\ codecOut.err = "invalid bridge header name token"

\* "sec-websocket-extensions" went out as token 28 and came back as itself
C28_Witness ==
    /\ codecOp = "name"
    /\ codecPc = "done"
    /\ codecIn = DecoderTable[29]
    /\ wire = U16(28)
    /\ codecOut.status = "ok"
    /\ codecOut.value = codecIn

\* the frame write_bridge_frame makes of a payload, and the one
\* write_bridge_chunk_frame_with_type makes of a chunk: the length, then the payload
FrameOf(bytes) == U32(Len(bytes)) \o bytes
ChunkPayloadOf(frame_type, piece) ==
    <<BRIDGE_PROTOCOL_VERSION, frame_type>> \o U32(Len(piece)) \o piece

\* the frame types a decoder takes
DecoderTypes(decoder) ==
    IF decoder = BRIDGE_RESPONSE_FRAME_TYPE
    THEN {BRIDGE_RESPONSE_FRAME_TYPE, BRIDGE_RESPONSE_FRAME_TYPE_TOKENIZED}
    ELSE IF decoder = BRIDGE_RESPONSE_START_FRAME_TYPE
    THEN {BRIDGE_RESPONSE_START_FRAME_TYPE, BRIDGE_RESPONSE_START_FRAME_TYPE_TOKENIZED}
    ELSE {decoder}

\* the payload that arrived has bytes after the last field of a payload that
\* the decoder takes
HasTrailingBytes ==
    /\ Len(wire) > Len(codecIn)
    /\ decode_payload(codecArg, codecIn).status = "ok"

\* C29: every frame written has an outer u32 length equal to the number of
\* payload bytes that follow it (for a chunk frame: 6 plus the chunk length),
\* however the socket takes the bytes, and each of the six payload decoders
\* rejects a payload with one or more bytes after its last field.
C29_LengthPrefixExact ==
    /\ (codecOp = "frame" /\ codecPc = "done" /\ codecOut.status = "ok") =>
          /\ Len(wire) >= 4
          /\ FromU32(Take(wire, 4)) = Len(wire) - 4
          /\ Drop(wire, 4) = codecIn
    /\ (codecOp = "chunk_frame" /\ codecPc = "done" /\ codecOut.status = "ok") =>
          /\ Len(wire) >= 4
          /\ FromU32(Take(wire, 4)) = Len(wire) - 4
          /\ FromU32(Take(wire, 4)) = 6 + Len(codecIn)
          /\ Drop(wire, 4) = ChunkPayloadOf(codecArg, codecIn)
    /\ (codecOp = "frame" /\ codecPc = "vectored") => IsPrefix(wire, FrameOf(codecIn))
    /\ (codecOp = "chunk_frame" /\ codecPc = "vectored") =>
          IsPrefix(wire, FrameOf(ChunkPayloadOf(codecArg, codecIn)))
    /\ (codecOp = "decode" /\ codecPc = "done") =>
          /\ Len(wire) > Len(codecIn) => codecOut.status = "err"
          /\ HasTrailingBytes =>
                codecOut.err = "unexpected trailing bridge payload bytes"
          /\ wire = codecIn =>
                codecOut.status = (IF codecIn[2] \in DecoderTypes(codecArg)
                                   THEN "ok" ELSE "err")

\* a tokenized response with two headers and one byte after its body was rejected
C29_Witness ==
    /\ codecOp = "decode"
    /\ codecPc = "done"
    /\ codecArg = BRIDGE_RESPONSE_FRAME_TYPE
    /\ codecIn[2] = BRIDGE_RESPONSE_FRAME_TYPE_TOKENIZED
    /\ Len(codecIn) > 30
    /\ wire = codecIn \o <<0>>
    /\ codecOut.err = "unexpected trailing bridge payload bytes"

\* the length the stream declares, once four bytes of it are there
DeclaredLen == FromU32(Take(codecIn, 4))

\* the read ended by itself, not by an error of the socket
ReadEnded ==
    /\ codecOp = "read"
    /\ codecPc = "done"
    /\ codecOut.err \notin {"read frame header failed", "read frame payload failed"}

\* C30: read_bridge_frame_reuse returns "no frame" only when the stream ends
\* before any byte of the length; it fails when the stream ends after 1 to 3
\* length bytes, when the declared length is above MAX_BRIDGE_FRAME_BYTES (the
\* payload is then neither read nor resized) and when the stream ends before
\* the whole payload; otherwise the buffer holds exactly the declared number of
\* bytes, the ones of the stream, however the stream splits them across reads.
C30_ReadFrame ==
    ReadEnded =>
        /\ codecOut.status = "no_frame" <=> codecIn = <<>>
        /\ Len(codecIn) \in 1..3 =>
              /\ codecOut.status = "err"
              /\ codecOut.err = "bridge closed connection while reading frame header"
        /\ (Len(codecIn) >= 4 /\ DeclaredLen > MAX_BRIDGE_FRAME_BYTES) =>
              /\ codecOut.status = "err"
              /\ codecOut.err = "bridge frame too large"
              /\ wire = Drop(codecIn, 4)
              /\ payload = [i \in 1..codecArg |-> StaleByte]
        /\ (Len(codecIn) >= 4 /\ DeclaredLen <= MAX_BRIDGE_FRAME_BYTES
                /\ Len(codecIn) - 4 < DeclaredLen) =>
              /\ codecOut.status = "err"
              /\ codecOut.err = "bridge stream ended before response payload"
        /\ (Len(codecIn) >= 4 /\ DeclaredLen <= MAX_BRIDGE_FRAME_BYTES
                /\ Len(codecIn) - 4 >= DeclaredLen) =>
              /\ codecOut.status = "ok"
              /\ Len(payload) = DeclaredLen
              /\ payload = SubSeq(codecIn, 5, 4 + DeclaredLen)
              /\ wire = Drop(codecIn, 4 + DeclaredLen)

\* a frame of three bytes was read into a buffer that held five bytes of an
\* earlier frame, and a byte of the next frame stayed in the stream
C30_Witness ==
    /\ ReadEnded
    /\ codecOut.status = "ok"
    /\ codecArg = StaleLen
    /\ Len(payload) = 3
    /\ Len(wire) = 1

\* C36: write_all_vectored writes every byte of its slices exactly once and in
\* order whatever the stream takes per write (inside a slice, up to its end,
\* over several slices, with empty slices among them); once all bytes are
\* written its next turn returns Ok, and it fails with the write-zero error as
\* soon as the stream takes 0 bytes while bytes remain.
C36_VectoredWriteComplete ==
    codecOp = "vectored" =>
        /\ codecPc = "vectored" =>
              /\ wire \o Unwritten(buffers, index, offset) = codecIn
              /\ wire = codecIn =>
                    SkipWritten(buffers, index, offset)[1] >= Len(buffers)
        /\ (codecPc = "done" /\ codecOut.status = "ok") => wire = codecIn
        /\ (codecPc = "done" /\ codecOut.status = "err") =>
              /\ codecOut.err = "failed to write bridge frame bytes"
              /\ IsPrefix(wire, codecIn)
              /\ Len(wire) < Len(codecIn)

\* four slices, the second one empty, were written up
C36_Witness ==
    /\ codecOp = "vectored"
    /\ codecPc = "done"
    /\ codecOut.status = "ok"
    /\ Len(buffers) = 4
    /\ buffers[2] = <<>>
    /\ Len(buffers[1]) = 2
    /\ Len(buffers[3]) = 2
    /\ wire = codecIn

\* the chunk length the payload declares
InnerChunkLen == FromU32(SubSeq(wire, 3, 6))

\* C37: the response-chunk and tunnel-chunk decoders are strict: a payload whose
\* inner chunk length differs from the payload length minus 6 is rejected, as
\* truncated when the declared length is larger and for trailing bytes when it
\* is smaller; only an exact match yields the chunk bytes.
C37_ChunkDecodedStrictly ==
    (codecOp = "chunk_decode" /\ codecPc = "done") =>
        /\ InnerChunkLen = Len(wire) - 6 => codecOut = Got(codecIn, Len(wire))
        /\ InnerChunkLen > Len(wire) - 6 =>
              /\ codecOut.status = "err"
              /\ codecOut.err = "truncated bridge payload"
        /\ InnerChunkLen < Len(wire) - 6 =>
              /\ codecOut.status = "err"
              /\ codecOut.err = "unexpected trailing bridge payload bytes"

\* a tunnel chunk of two bytes that declares three was rejected as truncated
C37_Witness ==
    /\ codecOp = "chunk_decode"
    /\ codecPc = "done"
    /\ codecArg = BRIDGE_TUNNEL_CHUNK_FRAME_TYPE
    /\ Len(codecIn) = 2
    /\ InnerChunkLen = 3
    /\ codecOut.err = "truncated bridge payload"

\* the offset behind n length-prefixed fields that start at offset `at`
RECURSIVE SkipFields(_, _, _)
SkipFields(bytes, at, n) ==
    IF n = 0 THEN at ELSE SkipFields(bytes, get_bytes(bytes, at).offset, n - 1)

\* where the headers_count of the encoded request is, and its value
CountAt == SkipFields(wire, 2, 6)
HeadersCount == FromU32(SubSeq(wire, CountAt + 1, CountAt + 4))

\* the headers of the request whose value is text, in their order
TextHeaders == SelectSeq(codecIn.headers, LAMBDA h : IsText(h[2]))

\* the header entries read back from the encoded request
EntriesRead(count) == decode_headers(wire, CountAt + 4, count, TRUE)

\* C38: in an encoded request, single-frame or start, headers_count is the
\* number of header entries that follow it: a header whose value is not text
\* is left out with its name and is not counted, and the others keep their
\* order.
C38_HeadersCountExact ==
    (codecOp = "request" /\ codecPc = "done") =>
        /\ HeadersCount = Len(TextHeaders)
        /\ EntriesRead(HeadersCount).status = "ok"
        /\ EntriesRead(HeadersCount).value = TextHeaders
        /\ IF codecArg = NoToken
           THEN EntriesRead(HeadersCount).offset = Len(wire)
           ELSE get_bytes(wire, EntriesRead(HeadersCount).offset)
                    = Got(Range(1, codecArg), Len(wire))

\* a start frame of a request with a header that is no text between two that
\* are: two entries were written and counted
C38_Witness ==
    /\ codecOp = "request"
    /\ codecPc = "done"
    /\ codecArg = NoToken
    /\ Len(codecIn.headers) = 3
    /\ ~IsText(codecIn.headers[2][2])
    /\ HeadersCount = 2

\* the values the bridge result has for a name, in the order of its pairs
BridgeValuesOf(name) ==
    LET mine == SelectSeq(codecIn.headers, LAMBDA h : h[1] = name)
    IN  [i \in 1..Len(mine) |-> mine[i][2]]

\* C34: when a bridge result is turned into the HTTP response, a status that
\* is no valid HTTP status becomes 502 and every other status is kept, and the
\* response holds the header pairs of the result appended in their order:
\* every name once, with all its values, duplicates included, in that order.
C34_ResponseAssembled ==
    (codecOp \in Builders /\ codecPc = "done" /\ codecOut.status = "ok") =>
        /\ codecOut.value.status =
              (IF codecIn.status >= 100 /\ codecIn.status <= 999
               THEN codecIn.status ELSE 502)
        /\ \A i, j \in 1..Len(codecOut.value.headers) :
              codecOut.value.headers[i].name = codecOut.value.headers[j].name => i = j
        /\ \A i \in 1..Len(codecOut.value.headers) :
              codecOut.value.headers[i].values
                  = BridgeValuesOf(codecOut.value.headers[i].name)
        /\ \A k \in 1..Len(codecIn.headers) :
              \E i \in 1..Len(codecOut.value.headers) :
                  codecOut.value.headers[i].name = codecIn.headers[k][1]

\* a result with the status 1000 and three set-cookie pairs became a 502 with
\* the three values
C34_Witness ==
    /\ codecOp = "proxy_request"
    /\ codecPc = "done"
    /\ codecIn.status = 1000
    /\ codecOut.value.status = 502
    /\ Len(codecOut.value.headers) = 1
    /\ Len(codecOut.value.headers[1].values) = 3
    /\ codecOut.value.headers[1].values[1] # codecOut.value.headers[1].values[2]

\* ---- claims about the failure paths of one exchange -----------------------------

\* the first thing that went wrong was the request body stream, and it went
\* wrong before a non-empty chunk was seen (no start frame was written)
BodyFailedFirst ==
    /\ faults # <<>>
    /\ faults[1] = "body"
    /\ \A i \in 1..Len(sent) : sent[i].frame # StartFrame

\* C39: when reading the request body stream fails before any non-empty chunk
\* was seen, no request frame is sent on any connection and the call fails:
\* the empty single-frame request is for bodies that are truly empty.
C39_BodyErrorSendsNothing ==
    BodyFailedFirst =>
        /\ sent = <<>>
        /\ pc = "done" => result = "err"

\* what the HTTP client gets from the exchange: a response that ended well
\* ("ok"), a failed call ("err"), a response whose body stream broke off
\* ("aborted"); with the status and the body bytes that arrived
Observed ==
    [at |-> IF result = "err" THEN "err"
            ELSE IF pc \in {"done", "stream_end"} THEN "ok"
            ELSE "aborted",
     status |-> IF result = "err" THEN 0 ELSE status,
     bytes |-> IF result = "err" THEN <<>> ELSE body \o httpBody]

\* C32: for a request that is no WebSocket upgrade, the socket bridge and the
\* direct-callback bridge answer the same sequence of response frames alike:
\* whenever the frames taken have ended the response, the client has the
\* status, the body bytes and the kind of ending that the frames amount to,
\* whichever transport carried them.
C32_TransportsAgree ==
    (/\ ~websocket_upgrade_requested
     /\ ~retried
     /\ pc \in {"done", "stream_end", "stream_error"}
     /\ heard.at \in {"ok", "err", "aborted"}) =>
        /\ Observed.at = heard.at
        /\ Observed.status = heard.status
        /\ Observed.bytes = heard.bytes

\* C40: whenever call_direct_bridge_request returns an error (the emission
\* failed, the wait timed out, the first frame had an invalid type or did not
\* decode), the registry holds the request id no longer; a push for the id
\* then finds no entry and returns 0. A call that returns leaves "emit" or
\* "wait_first" for "idle".
C40_FailedCallLeavesNoEntry ==
    [][\A t \in DirectTasks :
          (directPc[t] \in {"emit", "wait_first"} /\ directPc'[t] = "idle") =>
              directId[t] \notin pending']_vars

\* ---- the serving loop and its shutdown ----------------------------------------

ServeTasks == 1..MaxServeConns

\* the tasks connections.spawn(..) has started so far
Spawned == {id \in ServeTasks : serveTasks[id] # "none"}

\* server_native_start_proxy_server has returned the handle: the listener is
\* bound, the serving function is in its loop, the JoinSet is empty
ServeInit ==
    /\ PoolNew /\ TasksIdle /\ NoExchange /\ RegistryIdle /\ LockIdle /\ TunnelIdle
    /\ CodecIdle
    /\ servePc = "select"
    /\ stopPc = "none"
    /\ shutdown_tx = "unsent"
    /\ backlog = 0
    /\ acceptErrors = 0
    /\ serveTasks = [id \in ServeTasks |-> "none"]
    /\ connections = {}
    /\ atSignal = {}

\* a client connects; the kernel queues the connection while the listener lives
ClientConnects ==
    /\ servePc # "returned"
    /\ backlog + Cardinality(Spawned) < MaxServeConns
    /\ backlog' = backlog + 1
    /\ UNCHANGED <<servePc, stopPc, shutdown_tx, acceptErrors, serveTasks, connections,
                   atSignal>>

\* select!: accepted = listener.accept() is Ok; connections.spawn(serve_connection)
AcceptSpawns ==
    /\ servePc = "select"
    /\ backlog > 0
    /\ backlog' = backlog - 1
    /\ serveTasks' = [serveTasks EXCEPT ![Cardinality(Spawned) + 1] = "running"]
    /\ connections' = connections \cup {Cardinality(Spawned) + 1}
    /\ UNCHANGED <<servePc, stopPc, shutdown_tx, acceptErrors, atSignal>>

\* select!: accepted is Err; the loop logs and continues
AcceptFails ==
    /\ servePc = "select"
    /\ acceptErrors < MaxAcceptErrors
    /\ acceptErrors' = acceptErrors + 1
    /\ UNCHANGED <<servePc, stopPc, shutdown_tx, backlog, serveTasks, connections,
                   atSignal>>

\* ObserveShutdown returning at once, without the join_next loop
ObserveShutdownNoDrain ==
    /\ servePc = "select"
    /\ shutdown_tx = "sent"
    /\ servePc' = "returned"
    /\ atSignal' = Spawned
    /\ UNCHANGED <<stopPc, shutdown_tx, backlog, acceptErrors, serveTasks, connections>>

\* select!: _ = &mut shutdown_rx => break
ObserveShutdown ==
    /\ servePc = "select"
    /\ shutdown_tx = "sent"
    /\ servePc' = "drain"
    /\ atSignal' = Spawned
    /\ UNCHANGED <<stopPc, shutdown_tx, backlog, acceptErrors, serveTasks, connections>>

\* a connection task ends: serve_connection returned Ok or Err, or panicked
ConnectionEnds(id) ==
    /\ serveTasks[id] = "running"
    /\ serveTasks' = [serveTasks EXCEPT ![id] = "finished"]
    /\ UNCHANGED <<servePc, stopPc, shutdown_tx, backlog, acceptErrors, connections,
                   atSignal>>

\* while let Some(result) = connections.join_next().await: a finished task is
\* taken out of the set
JoinNext(id) ==
    /\ servePc = "drain"
    /\ id \in connections
    /\ serveTasks[id] = "finished"
    /\ connections' = connections \ {id}
    /\ UNCHANGED <<servePc, stopPc, shutdown_tx, backlog, acceptErrors, serveTasks,
                   atSignal>>

\* join_next() yields None on the empty set: the function returns Ok(())
ServeReturns ==
    /\ servePc = "drain"
    /\ connections = {}
    /\ servePc' = "returned"
    /\ UNCHANGED <<stopPc, shutdown_tx, backlog, acceptErrors, serveTasks, connections,
                   atSignal>>

\* server_native_stop_proxy_server: handle.shutdown_tx.take(), tx.send(())
StopSends ==
    /\ stopPc = "none"
    /\ shutdown_tx' = "sent"
    /\ stopPc' = "join"
    /\ UNCHANGED <<servePc, backlog, acceptErrors, serveTasks, connections, atSignal>>

\* server_native_stop_proxy_server: join_handle.join() returns once the
\* server thread has left the serving function
StopJoins ==
    /\ stopPc = "join"
    /\ servePc = "returned"
    /\ stopPc' = "done"
    /\ UNCHANGED <<servePc, shutdown_tx, backlog, acceptErrors, serveTasks, connections,
                   atSignal>>

\* everything but the server
ServeFrame ==
    UNCHANGED <<poolVars, taskVars, exVars, regVars, lockVars, tunVars, codecVars>>

ServeNext ==
    \/ ClientConnects /\ ServeFrame
    \/ AcceptSpawns /\ ServeFrame
    \/ AcceptFails /\ ServeFrame
    \/ ObserveShutdown /\ ServeFrame
    \/ \E id \in ServeTasks : ConnectionEnds(id) /\ ServeFrame
    \/ \E id \in ServeTasks : JoinNext(id) /\ ServeFrame
    \/ ServeReturns /\ ServeFrame
    \/ StopSends /\ ServeFrame
    \/ StopJoins /\ ServeFrame

SpecServe == ServeInit /\ [][ServeNext]_vars

\* C33: once the accept loop has observed the shutdown signal no further
\* connection is accepted (the spawned tasks are the ones spawned before), and
\* the serving function has returned only if every one of these tasks has
\* finished.
C33_ShutdownDrains ==
    servePc \in {"drain", "returned"} =>
        /\ Spawned = atSignal
        /\ servePc = "returned" =>
              \A id \in atSignal : serveTasks[id] = "finished" /\ id \notin connections

\* the function returned after the two connection tasks spawned before the
\* signal had finished, while a third connection was still waiting unaccepted
C33_Witness ==
    /\ servePc = "returned"
    /\ stopPc = "done"
    /\ Cardinality(atSignal) = 2
    /\ backlog = 1

====
